---- MODULE Spec2Model ----
(***************************************************************************)
(* A model of lmdb-rs, the safe wrapper around the LMDB storage engine.    *)
(*                                                                         *)
(* Spec        the transaction state machine (NativeTransaction) and the   *)
(*             Database point operations on one database, over an engine   *)
(*             with snapshot reads, one writer and nested transactions.    *)
(* SpecCache   threads sharing one Environment calling get_db/create_db,   *)
(*             one step per statement of Environment::_open_db.            *)
(* SpecCursor  a Cursor over one database: _move_to_prev and the engine    *)
(*             cursor operations it is built from.                         *)
(* SpecItems   the same Cursor with the searches by key and value.         *)
(* SpecIter    the iterators of Database: CursorIterator and its policies. *)
(* SpecData    the point operations of Database and the write operations   *)
(*             of a Cursor, in one Normal transaction on one database.     *)
(* SpecEnv     the Environment values on one engine environment, read-only *)
(*             or read-write: their transactions, children, and drop.      *)
(* SpecIterChild  the iterators on a transaction that begins and ends a    *)
(*             nested transaction while an iterator is in use.             *)
(* SpecErr     the mapping of the engine's return codes to MdbError.       *)
(* SpecOpen    the threads of SpecCache holding read-write transactions of *)
(*             their own while they open databases.                        *)
(*                                                                         *)
(* The engine (liblmdb, reached through the ffi calls) is an external      *)
(* collaborator; the mdb_ operators state its documented behaviour.  A     *)
(* call on a transaction handle the engine has already freed is undefined  *)
(* behaviour and is modelled as a choice over the possible return values.  *)
(***************************************************************************)
EXTENDS Integers, Sequences, FiniteSets, TLC

\* ------------------------------------------------------------------ bounds
MaxReader == 1
MaxKey == 1
MaxVal == 2

\* the wrappers of Spec: one read-write Transaction, one nested Transaction
\* begun from it, and MaxReader ReadonlyTransactions; each slot is taken
\* again after its wrapper was dropped
ReaderNames == <<"reader1", "reader2", "reader3">>
Readers == {ReaderNames[i] : i \in 1..MaxReader}
TxnIds == {"writer", "child"} \cup Readers
Keys == 1..MaxKey
ValueNames == <<"a", "b", "c", "d">>
Values == {ValueNames[i] : i \in 1..MaxVal}
NoVal == "none"
NoTxn == "none"

Stores == [Keys -> Values \cup {NoVal}]
EmptyStore == [k \in Keys |-> NoVal]

\* the engine's handles of named databases start after its two own databases
CORE_DBS == 2

\* the database the Database operations of Spec work on: the handle returned
\* by env.create_db("test1") before any transaction is begun
TestDbName == "test1"
TestDbi == CORE_DBS

\* SpecCache: the threads sharing the Environment, the names they open and
\* the engine's max_dbs
MaxThread == 2
MaxDbs == 2
Threads == 1..MaxThread
DbNames == {"test1", "test2", "test3"}
\* a name with a NUL byte inside, which CString::new refuses
NulName == "te\\0st"
Dbis == CORE_DBS..(CORE_DBS + MaxDbs - 1)
\* SpecCursor: the keys and values stored, and the keys asked for, which
\* reach one below and one above the stored ones; the stored values are the
\* even numbers, the values asked for lie below, on, between and above them
MaxCKey == 3
MaxCVal == 2
CKeys == 1..MaxCKey
CVals == {2 * i : i \in 1..MaxCVal}
Targets == 0..(MaxCKey + 1)
VTargets == 1..(2 * MaxCVal + 1)

\* a call's frame: db_name, force_creation, the local db once mdb_dbi_open
\* wrote it, whether the opening transaction made the handle or the database,
\* and the engine calls issued so far
NoFrame == [name |-> "", create |-> FALSE, db |-> {}, fresh |-> FALSE, made |-> FALSE,
            calls |-> <<>>]
NoRet == [res |-> "none", dbi |-> {}, hit |-> FALSE, calls |-> <<>>]

VARIABLES
    \* ---- Spec: NativeTransaction wrappers, engine, handle cache
    txn,        \* [TxnIds -> [life, state]]  NativeTransaction
    eng,        \* [TxnIds -> [h, view]]  the engine's side of each handle
    committed,  \* the engine's last committed contents of the database
    dbiOpen,    \* whether the engine still has handle TestDbi open
    db_cache,   \* Environment.db_cache: HashMap name -> dbi
    hist,       \* history: per transaction and key, what the calls so far determine
    durable,    \* history: the value last committed for each key by a top-level commit
    last,       \* the last operation: its kind, subject, result and engine calls
    \* ---- SpecCache: threads inside Environment::_open_db
    pc,         \* [Threads -> the statement the thread is at]
    frame,      \* [Threads -> the arguments and locals of the call in progress]
    lock,       \* the threads holding the db_cache mutex: none or one
    slots,      \* the engine's table of open named databases: name -> dbi
    onDisk,     \* the names of the databases the data file holds
    ret,        \* [Threads -> what the thread's last call returned]
    returned,   \* history: [name -> the handles successful calls returned]
    \* ---- SpecCursor: one Cursor of a Normal transaction over one database
    items,      \* the stored items <<key, value>>
    dupsort,    \* whether the database was opened with MDB_DUPSORT
    reverse,    \* whether set_compare installed the descending key order
    dreverse,   \* whether set_dupsort installed the descending order of values
    mc,         \* the engine's cursor: [st, at]
    cursor,     \* Cursor: key_val, data_val, valid_key, valid_value
    cres,       \* the last Cursor operation: its name, target key and result
    \* ---- SpecIter: one CursorIterator over that database
    iter,       \* CursorIterator: the policy (inner) and has_data
    nx,         \* history: what the last call of next() did
    yielded,    \* history: the elements next() returned, in order
    \* ---- SpecEnv: one engine environment and the Environment values on it
    env         \* is_readonly, the holders of the handle, the engine's side

txnVars == <<txn, eng, committed, dbiOpen, db_cache, hist, durable, last>>
cacheVars == <<pc, frame, lock, slots, onDisk, ret, returned>>
cursorVars == <<items, dupsort, reverse, dreverse, mc, cursor, cres, iter, nx, yielded>>

vars == <<txnVars, cacheVars, cursorVars, env>>

\* the steps of Spec leave the rest alone
TxnOnly == UNCHANGED <<cacheVars, cursorVars, env>>

\* ------------------------------------------------------------ transaction.rs
Alive(t) == txn[t].life = "alive"

\* NativeTransaction::is_readonly: flags holds MDB_RDONLY
is_readonly(t) == t \in Readers

\* the parent handle mdb_txn_begin was given (null for a top-level one)
Parent(t) == IF t = "child" THEN "writer" ELSE NoTxn

\* children borrow their parent, so the parent cannot be taken by &mut self or
\* by value while a child wrapper exists
NoAliveChild(t) == \A c \in TxnIds : ~(Alive(c) /\ Parent(c) = t)

HasActiveChild(t) == \E c \in TxnIds : Parent(c) = t /\ eng[c].h = "active"

\* ------------------------------------------------------------------ core.rs
\* MdbError::new_with_code
new_with_code(code) ==
    CASE code = "MDB_NOTFOUND" -> "NotFound"
      [] code = "MDB_KEYEXIST" -> "KeyExists"
      [] code = "MDB_TXN_FULL" -> "TxnFull"
      [] code = "MDB_CURSOR_FULL" -> "CursorFull"
      [] code = "MDB_PAGE_FULL" -> "PageFull"
      [] code = "MDB_CORRUPTED" -> "Corrupted"
      [] code = "MDB_PANIC" -> "Panic"
      [] OTHER -> "Other"

\* lift_mdb! and try_mdb!: Ok for MDB_SUCCESS, else the mapped error
lift_mdb(code) == IF code = "MDB_SUCCESS" THEN "Ok" ELSE new_with_code(code)

\* assert_state_eq! without its comparison
assert_state_skipped(cur, exp) == TRUE

\* assert_state_eq!: passes exactly when the current state is the expected one
assert_state_eq(cur, exp) == cur = exp

\* Txn::get_state of the wrapper types
get_state(t) == txn[t].state

\* the record of an operation: its subject, the key read (get), the subject's
\* state before and after, the result and value returned and the engine calls
\* issued, in order
NoOp == [op |-> "init", who |-> NoTxn, key |-> {}, pre |-> "none", post |-> "none",
         res |-> "none", val |-> NoVal, calls |-> <<>>]

Result(op, t, post, res, val, calls) ==
    [op |-> op, who |-> t, key |-> {}, pre |-> txn[t].state, post |-> post,
     res |-> res, val |-> val, calls |-> calls]

New(op, t, res, calls) ==
    [op |-> op, who |-> t, key |-> {}, pre |-> "none",
     post |-> IF res = "Ok" THEN "Normal" ELSE "none",
     res |-> res, val |-> NoVal, calls |-> calls]

\* ------------------------------------------------------------------ engine
Usable(t) == eng[t].h = "active" /\ dbiOpen /\ ~HasActiveChild(t)

WriterActive == eng["writer"].h = "active"

\* the slot a new reader takes: the lowest one holding no wrapper
FreeReader(t) ==
    /\ t \in Readers /\ ~Alive(t)
    /\ \A i, j \in 1..MaxReader : (ReaderNames[j] = t /\ i < j) => Alive(ReaderNames[i])

FreshTxn == [life |-> "alive", state |-> "Normal"]
NoTxnRec == [life |-> "none", state |-> "Invalid"]
NoHandle == [h |-> "none", view |-> EmptyStore]
\* a handle the engine has freed, and the call that ended it
Freed(by) == [h |-> by, view |-> EmptyStore]

\* history of a transaction for a key: "fresh" while the key still has the
\* value last committed when the transaction began (or was renewed), "stale"
\* once another commit changed it, and the value (or NoVal) the transaction
\* itself wrote last
Fresh == [k \in Keys |-> "fresh"]
Own(t) == {k \in Keys : hist[t][k] \notin {"fresh", "stale"}}

\* the Environment of the other specifications: read-write, held once
NoEnvOp == [op |-> "init", res |-> "none", calls |-> <<>>]
EnvIdle == [is_readonly |-> FALSE, holders |-> 1, closes |-> 0, txns |-> {},
            begun |-> {}, cached |-> FALSE, last |-> NoEnvOp, poisoned |-> FALSE]

\* no thread is inside _open_db
CacheIdle ==
    /\ pc = [th \in Threads |-> "idle"]
    /\ frame = [th \in Threads |-> NoFrame]
    /\ lock = {}
    /\ slots = [n \in {TestDbName} |-> TestDbi]
    /\ onDisk = {TestDbName}
    /\ ret = [th \in Threads |-> NoRet]
    /\ returned = [n \in DbNames |-> {}]

\* no iterator was made, next() was not called
NoIter == [method |-> "none", inner |-> "none", start_key |-> {}, end_key |-> {},
           end_inclusive |-> FALSE, key |-> {}, has_data |-> FALSE]
NoNext == [n |-> 0, ret |-> "none", elem |-> {}, calls |-> <<>>, fetched |-> 0,
           from |-> [st |-> "unset", at |-> {}]]
IterIdle ==
    /\ iter = NoIter
    /\ nx = NoNext
    /\ yielded = <<>>

\* no cursor is open
CursorIdle ==
    /\ items = {}
    /\ dupsort = FALSE
    /\ reverse = FALSE
    /\ dreverse = FALSE
    /\ mc = [st |-> "unset", at |-> {}]
    /\ cursor = [key_val |-> {}, data_val |-> {}, valid_key |-> FALSE, valid_value |-> FALSE,
                 key_mem |-> "zeroed", data_mem |-> "zeroed"]
    /\ cres = [op |-> "init", target |-> {}, res |-> "none"]
    /\ IterIdle

Init ==
    /\ CacheIdle
    /\ CursorIdle
    /\ env = EnvIdle
    /\ txn = [t \in TxnIds |-> NoTxnRec]
    /\ eng = [t \in TxnIds |-> NoHandle]
    /\ committed = EmptyStore
    /\ dbiOpen = TRUE
    /\ db_cache = [n \in {TestDbName} |-> TestDbi]
    /\ hist = [t \in TxnIds |-> Fresh]
    /\ durable = EmptyStore
    /\ last = NoOp

\* Environment::new_transaction (read-write; the engine admits one writer)
new_transaction ==
    \E t \in {"writer"} :
        /\ TxnOnly
        /\ ~Alive(t)
        /\ ~WriterActive
        /\ txn' = [txn EXCEPT ![t] = FreshTxn]
        /\ eng' = [eng EXCEPT ![t] = [h |-> "active", view |-> committed]]
        /\ hist' = [hist EXCEPT ![t] = Fresh]
        /\ last' = New("new_transaction", t, "Ok", <<"mdb_txn_begin">>)
        /\ UNCHANGED <<committed, dbiOpen, db_cache, durable>>

\* Environment::get_reader
get_reader ==
    \E t \in Readers :
        /\ TxnOnly
        /\ FreeReader(t)
        /\ txn' = [txn EXCEPT ![t] = FreshTxn]
        /\ eng' = [eng EXCEPT ![t] = [h |-> "active", view |-> committed]]
        /\ hist' = [hist EXCEPT ![t] = Fresh]
        /\ last' = New("get_reader", t, "Ok", <<"mdb_txn_begin">>)
        /\ UNCHANGED <<committed, dbiOpen, db_cache, durable>>

\* mdb_txn_begin with a parent: the engine nests only under a read-write
\* transaction that is active and has no active child
mdb_txn_begin_child(p) == eng[p].h = "active" /\ ~is_readonly(p) /\ ~HasActiveChild(p)

\* Transaction::new_child -> NativeTransaction::new_child(0).  A Transaction
\* wrapper exists only while its inner state is Normal (commit and abort
\* consume it).
new_child ==
    \E p \in {"writer"}, t \in {"child"} :
        /\ TxnOnly
        /\ Alive(p) /\ txn[p].state = "Normal"
        /\ ~Alive(t)
        /\ IF mdb_txn_begin_child(p)
           THEN /\ txn' = [txn EXCEPT ![t] = FreshTxn]
                /\ eng' = [eng EXCEPT ![t] = [h |-> "active", view |-> eng[p].view]]
                /\ hist' = [hist EXCEPT ![t] = hist[p]]
                /\ last' = New("new_child", t, "Ok", <<"mdb_txn_begin">>)
           ELSE /\ UNCHANGED <<txn, eng, hist>>
                /\ last' = New("new_child", t, lift_mdb("MDB_BAD_TXN"), <<"mdb_txn_begin">>)
        /\ UNCHANGED <<committed, dbiOpen, db_cache, durable>>

\* the code an engine call returns: success, or the error given
Code(ok, err) == IF ok THEN "MDB_SUCCESS" ELSE err

\* ---- engine: finishing, resetting and renewing a transaction handle
\* mdb_txn_commit frees the handle whatever it returns; a successful commit
\* of a nested transaction hands its changes to the parent, of a top-level
\* writer publishes them.  On a handle already freed nothing is modelled.
mdb_txn_commit(t, ok) ==
    IF eng[t].h # "active" THEN [eng |-> eng, committed |-> committed]
    ELSE LET freed == [eng EXCEPT ![t] = Freed(IF ok THEN "committed" ELSE "aborted")] IN
         IF ~ok \/ is_readonly(t) THEN [eng |-> freed, committed |-> committed]
         ELSE IF Parent(t) # NoTxn
              THEN [eng |-> [freed EXCEPT ![Parent(t)].view = eng[t].view],
                    committed |-> committed]
              ELSE [eng |-> freed, committed |-> eng[t].view]

\* mdb_txn_abort frees the handle
mdb_txn_abort(t) == IF eng[t].h \in {"active", "reset"} THEN [eng EXCEPT ![t] = Freed("aborted")] ELSE eng

\* mdb_txn_reset releases the snapshot of a read-only handle and keeps the handle
mdb_txn_reset(t) ==
    IF eng[t].h = "active" /\ is_readonly(t)
    THEN [eng EXCEPT ![t] = [h |-> "reset", view |-> EmptyStore]]
    ELSE eng

\* mdb_txn_renew: a reset handle gets a new snapshot, or the engine reports
\* an error (reader table full, map resized); on a freed handle the call is
\* undefined and may report either
mdb_txn_renew(t, ok) ==
    IF eng[t].h = "reset" /\ ok
    THEN [eng EXCEPT ![t] = [h |-> "active", view |-> committed]]
    ELSE eng

\* ---- history: a successful commit of a nested transaction passes what it
\* wrote to the parent; of a top-level writer makes it the committed values,
\* and the keys it wrote are stale for the transactions begun before
CommitHistory(t, ok) ==
    IF ~ok \/ is_readonly(t)
    THEN /\ hist' = [hist EXCEPT ![t] = Fresh]
         /\ UNCHANGED durable
    ELSE IF Parent(t) # NoTxn
    THEN /\ hist' = [hist EXCEPT ![t] = Fresh, ![Parent(t)] = hist[t]]
         /\ UNCHANGED durable
    ELSE /\ durable' = [k \in Keys |-> IF k \in Own(t) THEN hist[t][k] ELSE durable[k]]
         /\ hist' = [u \in TxnIds |->
                       IF u = t THEN Fresh
                       ELSE [k \in Keys |-> IF k \in Own(t) /\ hist[u][k] = "fresh" /\ Alive(u)
                                            THEN "stale" ELSE hist[u][k]]]

\* ---- NativeTransaction
\* commit that leaves the state for after the engine call, and loses it
commit_keeps_normal(ro) == "Normal"

\* commit that does not tell read-only from read-write
commit_state_released(ro) == "Released"

\* the state commit leaves behind (transaction.rs 49-53)
commit_state(ro) == IF ro THEN "Released" ELSE "Invalid"

\* abort that does not tell read-only from read-write
abort_state_invalid(ro) == "Invalid"

\* the state abort leaves behind (transaction.rs 64-68)
abort_state(ro) == IF ro THEN "Released" ELSE "Invalid"

\* silent_abort that forgets the state
silent_abort_keeps_normal == "Normal"

\* the state silent_abort leaves behind (transaction.rs 102)
silent_abort_state == "Invalid"

\* the state reset leaves behind (transaction.rs 79)
reset_state == "Released"

\* renew that forgets the state
renew_leaves_released == "Released"

\* the state a successful renew leaves behind (transaction.rs 87)
renew_state == "Normal"

\* the wrapper is gone: its slot, its engine record and its history are cleared
Dropped(tx, t) == [tx EXCEPT ![t] = NoTxnRec]

\* NativeTransaction::commit(&mut self); with consume the wrapper is dropped
\* afterwards (Transaction::commit(self))
commit_body(t, op, consume) ==
    IF ~assert_state_eq(txn[t].state, "Normal")
    THEN /\ last' = Result(op, t, txn[t].state, "StateError", NoVal, <<>>)
         /\ UNCHANGED <<txn, eng, committed, hist, durable>>
    ELSE \E ok \in BOOLEAN :
         LET st == commit_state(is_readonly(t))
             e == mdb_txn_commit(t, ok)
         IN  /\ txn' = IF consume THEN Dropped(txn, t) ELSE [txn EXCEPT ![t].state = st]
             /\ eng' = IF consume THEN [e.eng EXCEPT ![t] = NoHandle] ELSE e.eng
             /\ committed' = e.committed
             /\ CommitHistory(t, ok)
             /\ last' = Result(op, t, st, lift_mdb(Code(ok, "MDB_MAP_FULL")), NoVal,
                               <<"mdb_txn_commit">>)

commit(t) ==
    /\ TxnOnly
    /\ Alive(t) /\ NoAliveChild(t)
    /\ commit_body(t, "commit", FALSE)
    /\ UNCHANGED <<dbiOpen, db_cache>>

\* NativeTransaction::abort(&mut self)
abort_body(t, op, consume) ==
    IF txn[t].state # "Normal"
    THEN /\ last' = Result(op, t, txn[t].state, "Ok", NoVal, <<>>)
         /\ UNCHANGED <<txn, eng, hist>>
    ELSE LET st == abort_state(is_readonly(t))
         IN  /\ eng' = IF consume THEN [eng EXCEPT ![t] = NoHandle] ELSE mdb_txn_abort(t)
             /\ txn' = IF consume THEN Dropped(txn, t) ELSE [txn EXCEPT ![t].state = st]
             /\ hist' = [hist EXCEPT ![t] = Fresh]
             /\ last' = Result(op, t, st, "Ok", NoVal, <<"mdb_txn_abort">>)

abort(t) ==
    /\ TxnOnly
    /\ Alive(t) /\ NoAliveChild(t)
    /\ abort_body(t, "abort", FALSE)
    /\ UNCHANGED <<committed, dbiOpen, db_cache, durable>>

\* ReadonlyTransaction::reset -> NativeTransaction::reset
reset(t) ==
    /\ TxnOnly
    /\ Alive(t) /\ NoAliveChild(t) /\ is_readonly(t)
    /\ IF txn[t].state # "Normal"
       THEN /\ last' = Result("reset", t, txn[t].state, "Ok", NoVal, <<>>)
            /\ UNCHANGED <<txn, eng>>
       ELSE /\ eng' = mdb_txn_reset(t)
            /\ txn' = [txn EXCEPT ![t].state = reset_state]
            /\ last' = Result("reset", t, reset_state, "Ok", NoVal, <<"mdb_txn_reset">>)
    /\ UNCHANGED <<committed, dbiOpen, db_cache, hist, durable>>

\* ReadonlyTransaction::renew -> NativeTransaction::renew
renew(t) ==
    /\ TxnOnly
    /\ Alive(t) /\ NoAliveChild(t) /\ is_readonly(t)
    /\ IF ~assert_state_eq(txn[t].state, "Released")
       THEN /\ last' = Result("renew", t, txn[t].state, "StateError", NoVal, <<>>)
            /\ UNCHANGED <<txn, eng, hist>>
       ELSE \E ok \in BOOLEAN :
            LET st == IF ok THEN renew_state ELSE txn[t].state
            IN  /\ eng' = mdb_txn_renew(t, ok)
                /\ txn' = [txn EXCEPT ![t].state = st]
                /\ hist' = [hist EXCEPT ![t] = Fresh]
                /\ last' = Result("renew", t, st, lift_mdb(Code(ok, "MDB_READERS_FULL")),
                                  NoVal, <<"mdb_txn_renew">>)
    /\ UNCHANGED <<committed, dbiOpen, db_cache, durable>>

\* NativeTransaction::silent_abort: whether it calls the engine, and the
\* state it leaves
silent_abort(t) ==
    IF txn[t].state = "Normal"
    THEN [state |-> silent_abort_state, calls |-> <<"mdb_txn_abort">>]
    ELSE [state |-> txn[t].state, calls |-> <<>>]

\* Drop for NativeTransaction
drop(t) ==
    /\ TxnOnly
    /\ Alive(t) /\ NoAliveChild(t)
    /\ txn' = Dropped(txn, t)
    /\ eng' = [eng EXCEPT ![t] = NoHandle]
    /\ hist' = [hist EXCEPT ![t] = Fresh]
    /\ last' = Result("drop", t, silent_abort(t).state, "Ok", NoVal, silent_abort(t).calls)
    /\ UNCHANGED <<committed, dbiOpen, db_cache, durable>>

\* Transaction::commit(self): inner.commit(), then the wrapper is dropped
Transaction_commit(t) ==
    /\ TxnOnly
    /\ Alive(t) /\ NoAliveChild(t) /\ ~is_readonly(t) /\ txn[t].state = "Normal"
    /\ commit_body(t, "Transaction_commit", TRUE)
    /\ UNCHANGED <<dbiOpen, db_cache>>

\* Transaction::abort(self): inner.abort(), then the wrapper is dropped
Transaction_abort(t) ==
    /\ TxnOnly
    /\ Alive(t) /\ NoAliveChild(t) /\ ~is_readonly(t) /\ txn[t].state = "Normal"
    /\ abort_body(t, "Transaction_abort", TRUE)
    /\ UNCHANGED <<committed, dbiOpen, db_cache, durable>>

\* ---- engine: point operations on the database.  Each gives the set of
\* outcomes [res, val, view] the call can have; view is the transaction's
\* contents afterwards.
Outcome(res, val, view) == [res |-> res, val |-> val, view |-> view]

\* a call on a freed handle: any return code, nothing stored
Dangling(t) == eng[t].h \in {"committed", "aborted"}
Undefined(t) ==
    {Outcome(r, NoVal, eng[t].view) : r \in {"MDB_SUCCESS", "MDB_NOTFOUND", "MDB_BAD_TXN"}}

Refused(t) == {Outcome("MDB_BAD_TXN", NoVal, eng[t].view)}

mdb_get(t, k) ==
    IF Dangling(t)
    THEN {Outcome("MDB_SUCCESS", v, eng[t].view) : v \in Values} \cup
         {Outcome(r, NoVal, eng[t].view) : r \in {"MDB_NOTFOUND", "MDB_BAD_TXN"}}
    ELSE IF ~Usable(t) THEN Refused(t)
    ELSE IF eng[t].view[k] = NoVal THEN {Outcome("MDB_NOTFOUND", NoVal, eng[t].view)}
    ELSE {Outcome("MDB_SUCCESS", eng[t].view[k], eng[t].view)}

\* mdb_put on a database without duplicates.  MDB_NOOVERWRITE refuses a key
\* that is present; MDB_APPEND refuses a key that is not greater than every
\* stored key; MDB_APPENDDUP only concerns duplicate lists.
mdb_put(t, k, v, flags) ==
    LET view == eng[t].view
        stored == [view EXCEPT ![k] = v]
    IN  IF Dangling(t) THEN Undefined(t)
        ELSE IF ~Usable(t) \/ is_readonly(t) THEN Refused(t)
        ELSE IF flags = "MDB_NOOVERWRITE" /\ view[k] # NoVal
             THEN {Outcome("MDB_KEYEXIST", NoVal, view)}
        ELSE IF flags = "MDB_APPEND" /\ \E k2 \in Keys : view[k2] # NoVal /\ k2 >= k
             THEN {Outcome("MDB_KEYEXIST", NoVal, view)}
        ELSE {Outcome("MDB_SUCCESS", NoVal, stored)}

\* mdb_del; without duplicates the data argument is ignored
mdb_del(t, k) ==
    LET view == eng[t].view
    IN  IF Dangling(t) THEN Undefined(t)
        ELSE IF ~Usable(t) \/ is_readonly(t) THEN Refused(t)
        ELSE IF view[k] = NoVal THEN {Outcome("MDB_NOTFOUND", NoVal, view)}
        ELSE {Outcome("MDB_SUCCESS", NoVal, [view EXCEPT ![k] = NoVal])}

\* mdb_drop: empties the database (and with del = 1 closes the handle)
mdb_drop(t) ==
    IF Dangling(t) THEN Undefined(t)
    ELSE IF ~Usable(t) \/ is_readonly(t) THEN Refused(t)
    ELSE {Outcome("MDB_SUCCESS", NoVal, EmptyStore)}

\* ---- database.rs

\* history: what a successful write of a read-write transaction determines
Wrote(t, res, keys, v) ==
    IF res = "MDB_SUCCESS" /\ ~is_readonly(t)
    THEN [hist EXCEPT ![t] = [k \in Keys |-> IF k \in keys THEN v ELSE hist[t][k]]]
    ELSE hist

StateErrorStep(op, t) ==
    /\ last' = Result(op, t, txn[t].state, "StateError", NoVal, <<>>)
    /\ UNCHANGED <<txn, eng, committed, dbiOpen, db_cache, hist, durable>>

\* Database::get
Database_get(t) ==
    /\ TxnOnly
    /\ Alive(t)
    /\ IF ~assert_state_eq(get_state(t), "Normal") THEN StateErrorStep("get", t)
       ELSE \E k \in Keys : \E o \in mdb_get(t, k) :
            /\ last' = [Result("get", t, txn[t].state, lift_mdb(o.res), o.val, <<"mdb_get">>)
                          EXCEPT !.key = {k}]
            /\ UNCHANGED <<txn, eng, committed, dbiOpen, db_cache, hist, durable>>

\* the flags each put-class operation hands to set_value_with_flags
PutFlags(op) ==
    CASE op = "set" -> "0"
      [] op = "insert" -> "MDB_NOOVERWRITE"
      [] op = "append" -> "MDB_APPEND"
      [] op = "append_duplicate" -> "MDB_APPENDDUP"

PutOps == {"set", "insert", "append", "append_duplicate"}

\* Database::set, insert, append, append_duplicate
Database_put(op, t) ==
    /\ TxnOnly
    /\ Alive(t)
    /\ IF ~assert_state_eq(get_state(t), "Normal") THEN StateErrorStep(op, t)
       ELSE \E k \in Keys, v \in Values : \E o \in mdb_put(t, k, v, PutFlags(op)) :
            /\ eng' = [eng EXCEPT ![t].view = o.view]
            /\ hist' = Wrote(t, o.res, {k}, v)
            /\ last' = Result(op, t, txn[t].state, lift_mdb(o.res), NoVal, <<"mdb_put">>)
            /\ UNCHANGED <<txn, committed, dbiOpen, db_cache, durable>>

DelOps == {"del", "del_item"}

\* Database::del, del_item
Database_del(op, t) ==
    /\ TxnOnly
    /\ Alive(t)
    /\ IF ~assert_state_eq(get_state(t), "Normal") THEN StateErrorStep(op, t)
       ELSE \E k \in Keys : \E o \in mdb_del(t, k) :
            /\ eng' = [eng EXCEPT ![t].view = o.view]
            /\ hist' = Wrote(t, o.res, {k}, NoVal)
            /\ last' = Result(op, t, txn[t].state, lift_mdb(o.res), NoVal, <<"mdb_del">>)
            /\ UNCHANGED <<txn, committed, dbiOpen, db_cache, durable>>

\* Database::clear
Database_clear(t) ==
    /\ TxnOnly
    /\ Alive(t)
    /\ IF ~assert_state_eq(get_state(t), "Normal") THEN StateErrorStep("clear", t)
       ELSE \E o \in mdb_drop(t) :
            /\ eng' = [eng EXCEPT ![t].view = o.view]
            /\ hist' = Wrote(t, o.res, Keys, NoVal)
            /\ last' = Result("clear", t, txn[t].state, lift_mdb(o.res), NoVal, <<"mdb_drop">>)
            /\ UNCHANGED <<txn, committed, dbiOpen, db_cache, durable>>

\* Environment::drop_db_from_cache: removes the first entry found whose value
\* is the handle (the iteration order of the map is not fixed)
drop_db_from_cache(cache, handle) ==
    LET hits == {n \in DOMAIN cache : cache[n] = handle}
    IN  IF hits = {} THEN {cache}
        ELSE {[n \in DOMAIN cache \ {key} |-> cache[n]] : key \in hits}

\* Database::del_db
Database_del_db(t) ==
    /\ TxnOnly
    /\ Alive(t)
    /\ IF ~assert_state_eq(get_state(t), "Normal") THEN StateErrorStep("del_db", t)
       ELSE \E o \in mdb_drop(t), c \in drop_db_from_cache(db_cache, TestDbi) :
            /\ db_cache' = c
            /\ eng' = [eng EXCEPT ![t].view = o.view]
            /\ dbiOpen' = IF o.res = "MDB_SUCCESS" /\ ~Dangling(t) THEN FALSE ELSE dbiOpen
            /\ hist' = Wrote(t, o.res, Keys, NoVal)
            /\ last' = Result("del_db", t, txn[t].state, lift_mdb(o.res), NoVal, <<"mdb_drop">>)
            /\ UNCHANGED <<txn, committed, durable>>

\* ---- cursor.rs: opening a cursor
\* mdb_cursor_open refuses a transaction that is finished or reset
mdb_cursor_open(t) ==
    IF Dangling(t) THEN {"MDB_SUCCESS", "MDB_BAD_TXN"}
    ELSE IF ~Usable(t) THEN {"MDB_BAD_TXN"}
    ELSE {"MDB_SUCCESS"}

\* new_cursor, and the iterator constructors (iter, keyrange_from, keyrange_to,
\* keyrange_from_to, keyrange, item_iter), which all begin with
\* try!(self.new_cursor(txn)) and then wrap the cursor
CursorOps == {"new_cursor", "iter"}

\* Database::new_cursor -> Cursor::new, and the iterators built on it: each
\* opens the cursor first and, if that succeeded, positions it (init_cursor)
Database_new_cursor(op, t) ==
    /\ TxnOnly
    /\ Alive(t)
    /\ \E r \in mdb_cursor_open(t) :
         last' = Result(op, t, txn[t].state, lift_mdb(r), NoVal,
                        IF r = "MDB_SUCCESS" /\ op # "new_cursor"
                        THEN <<"mdb_cursor_open", "mdb_cursor_get">>
                        ELSE <<"mdb_cursor_open">>)
    /\ UNCHANGED <<txn, eng, committed, dbiOpen, db_cache, hist, durable>>

Next ==
    \/ new_transaction
    \/ get_reader
    \/ new_child
    \/ \E t \in TxnIds : commit(t)
    \/ \E t \in TxnIds : abort(t)
    \/ \E t \in TxnIds : reset(t)
    \/ \E t \in TxnIds : renew(t)
    \/ \E t \in TxnIds : drop(t)
    \/ \E t \in TxnIds : Transaction_commit(t)
    \/ \E t \in TxnIds : Transaction_abort(t)
    \/ \E t \in TxnIds : Database_get(t)
    \/ \E op \in PutOps, t \in TxnIds : Database_put(op, t)
    \/ \E op \in DelOps, t \in TxnIds : Database_del(op, t)
    \/ \E t \in TxnIds : Database_clear(t)
    \/ \E t \in TxnIds : Database_del_db(t)
    \/ \E op \in CursorOps, t \in TxnIds : Database_new_cursor(op, t)

Spec == Init /\ [][Next]_vars

\* ============================================================== SpecCache
\* Environment::_open_db, one step per statement, run by the threads that
\* share the Environment (clones share db_cache and the engine handle)

\* the steps of SpecCache leave the transactions of Spec alone
CacheOnly == UNCHANGED <<txn, eng, committed, dbiOpen, hist, durable, last, cursorVars, env>>

InitCache ==
    /\ env = EnvIdle
    /\ txn = [t \in TxnIds |-> NoTxnRec]
    /\ eng = [t \in TxnIds |-> NoHandle]
    /\ committed = EmptyStore
    /\ dbiOpen = TRUE
    /\ hist = [t \in TxnIds |-> Fresh]
    /\ durable = EmptyStore
    /\ last = NoOp
    /\ CursorIdle
    /\ db_cache = <<>>
    /\ pc = [th \in Threads |-> "idle"]
    /\ frame = [th \in Threads |-> NoFrame]
    /\ lock = {}
    /\ slots = <<>>
    /\ onDisk \in SUBSET DbNames
    /\ ret = [th \in Threads |-> NoRet]
    /\ returned = [n \in DbNames |-> {}]

\* a map with one more (or one replaced) entry: HashMap::insert
Insert(map, key, value) ==
    [n \in DOMAIN map \cup {key} |-> IF n = key THEN value ELSE map[n]]

Remove(map, key) == [n \in DOMAIN map \ {key} |-> map[n]]

\* the function returns: the guard is dropped, the result handed to the caller
Return(th, res, db, hit, calls) ==
    /\ pc' = [pc EXCEPT ![th] = "idle"]
    /\ frame' = [frame EXCEPT ![th] = NoFrame]
    /\ lock' = lock \ {th}
    /\ ret' = [ret EXCEPT ![th] = [res |-> res, dbi |-> db, hit |-> hit, calls |-> calls]]
    /\ returned' = IF res = "Ok"
                   THEN [returned EXCEPT ![frame[th].name] = @ \cup db]
                   ELSE returned

\* Mutex::lock returns when no thread holds the guard
Mutex_lock_unguarded(th) == TRUE
Mutex_lock(th) == lock = {}

\* self.db_cache.lock(): get_db (create FALSE) or create_db (create TRUE)
\* entered; the caller waits until the mutex is free; a mutex poisoned by a
\* panic of a holder gives Err(_) => Err(MdbError::CacheError)
open_db_lock(th, name, create) ==
    /\ CacheOnly
    /\ pc[th] = "idle"
    /\ Mutex_lock(th)
    /\ IF env.poisoned
       THEN /\ Return(th, "CacheError", {}, FALSE, <<>>)
            /\ UNCHANGED <<db_cache, slots, onDisk>>
       ELSE /\ lock' = {th}
            /\ pc' = [pc EXCEPT ![th] = "locked"]
            /\ frame' = [frame EXCEPT ![th] = [NoFrame EXCEPT !.name = name, !.create = create]]
            /\ UNCHANGED <<db_cache, slots, onDisk, ret, returned>>

\* the lookup in the cache that never finds an entry
cache_miss(cache, name) == {}

\* (*cache).get(db_name): the entry, if there is one
cache_get(cache, name) == IF name \in DOMAIN cache THEN {cache[name]} ELSE {}

\* if let Some(db) = (*cache).get(db_name) { return Ok(*db) }
open_db_lookup(th) ==
    /\ CacheOnly
    /\ pc[th] = "locked"
    /\ LET hit == cache_get(db_cache, frame[th].name)
       IN  IF hit # {}
           THEN Return(th, "Ok", hit, TRUE, frame[th].calls)
           ELSE /\ pc' = [pc EXCEPT ![th] = "miss"]
                /\ UNCHANGED <<frame, lock, ret, returned>>
    /\ UNCHANGED <<db_cache, slots, onDisk>>

\* the engine admits one read-write transaction at a time: mdb_txn_begin
\* waits for the writer mutex, which an opening transaction of another thread
\* or a read-write transaction of any thread (the caller's own too) holds
WriterFree(th) ==
    /\ \A o \in Threads \ {th} : pc[o] \notin {"begun", "opened"}
    /\ \A t \in env.txns : t.rdonly

\* self.create_transaction(None, txflags)?
open_db_begin(th) ==
    /\ CacheOnly
    /\ pc[th] = "miss"
    /\ WriterFree(th)
    /\ \E ok \in BOOLEAN :
         LET calls == Append(frame[th].calls, "mdb_txn_begin")
         IN  IF ok
             THEN /\ pc' = [pc EXCEPT ![th] = "begun"]
                  /\ frame' = [frame EXCEPT ![th].calls = calls]
                  /\ UNCHANGED <<lock, ret, returned>>
             ELSE Return(th, lift_mdb(Code(ok, "MDB_MAP_RESIZED")), {}, FALSE, calls)
    /\ UNCHANGED <<db_cache, slots, onDisk>>

\* mdb_dbi_open: the handle the environment already has for the name; else,
\* if the database exists or is to be created and a slot is free, the lowest
\* free slot
mdb_dbi_open(name, create) ==
    LET free == Dbis \ {slots[n] : n \in DOMAIN slots}
    IN  IF name \in DOMAIN slots
        THEN [code |-> "MDB_SUCCESS", db |-> {slots[name]}, fresh |-> FALSE]
        ELSE IF name \notin onDisk /\ ~create
        THEN [code |-> "MDB_NOTFOUND", db |-> {}, fresh |-> FALSE]
        ELSE IF free = {}
        THEN [code |-> "MDB_DBS_FULL", db |-> {}, fresh |-> FALSE]
        ELSE [code |-> "MDB_SUCCESS", fresh |-> TRUE,
              db |-> {d \in free : \A e \in free : d <= e}]

\* Drop for NativeTransaction on the way out of _open_db with txn still
\* Normal: silent_abort calls mdb_txn_abort
drop_txn_leaked(calls) == calls
drop_txn(calls) == Append(calls, "mdb_txn_abort")

\* the engine forgets what an aborted transaction opened or created
Discard(th) ==
    /\ slots' = IF frame[th].fresh THEN Remove(slots, frame[th].name) ELSE slots
    /\ onDisk' = IF frame[th].made THEN onDisk \ {frame[th].name} ELSE onDisk

\* mdb_dbi_open(txn.handle, db_name, flags, &mut db); try_mdb!(db_res):
\* on an error the function returns and txn is dropped, which aborts it
open_db_dbi_open(th) ==
    /\ CacheOnly
    /\ pc[th] = "begun"
    /\ frame[th].name # NulName
    /\ LET o == mdb_dbi_open(frame[th].name, frame[th].create)
           calls == Append(frame[th].calls, "mdb_dbi_open")
       IN  IF o.code = "MDB_SUCCESS"
           THEN /\ pc' = [pc EXCEPT ![th] = "opened"]
                /\ frame' = [frame EXCEPT ![th].db = o.db, ![th].fresh = o.fresh,
                                           ![th].made = frame[th].name \notin onDisk,
                                           ![th].calls = calls]
                /\ slots' = IF o.fresh
                            THEN Insert(slots, frame[th].name, CHOOSE d \in o.db : TRUE)
                            ELSE slots
                /\ onDisk' = onDisk \cup {frame[th].name}
                /\ UNCHANGED <<lock, ret, returned>>
           ELSE /\ Return(th, lift_mdb(o.code), {}, FALSE, drop_txn(calls))
                /\ UNCHANGED <<slots, onDisk>>
    /\ UNCHANGED db_cache

\* CString::new(db_name.as_bytes()).unwrap() on a name with a NUL byte: the
\* thread panics; unwinding drops txn, which aborts it, and drops the guard,
\* which poisons the mutex
open_db_panic(th) ==
    /\ pc[th] = "begun"
    /\ frame[th].name = NulName
    /\ Return(th, "panic", {}, FALSE, drop_txn(frame[th].calls))
    /\ env' = [env EXCEPT !.poisoned = TRUE]
    /\ UNCHANGED <<txn, eng, committed, dbiOpen, hist, durable, last, cursorVars>>
    /\ UNCHANGED <<db_cache, slots, onDisk>>

\* txn.commit()?
open_db_commit(th) ==
    /\ CacheOnly
    /\ pc[th] = "opened"
    /\ \E ok \in BOOLEAN :
         LET calls == Append(frame[th].calls, "mdb_txn_commit")
         IN  IF ok
             THEN /\ pc' = [pc EXCEPT ![th] = "committed"]
                  /\ frame' = [frame EXCEPT ![th].calls = calls]
                  /\ UNCHANGED <<lock, ret, returned, slots, onDisk>>
             ELSE /\ Return(th, lift_mdb(Code(ok, "MDB_MAP_FULL")), {}, FALSE, calls)
                  /\ Discard(th)
    /\ UNCHANGED db_cache

\* (*cache).insert(db_name.to_owned(), db); Ok(db)
open_db_insert(th) ==
    /\ CacheOnly
    /\ pc[th] = "committed"
    /\ db_cache' = Insert(db_cache, frame[th].name, CHOOSE d \in frame[th].db : TRUE)
    /\ Return(th, "Ok", frame[th].db, FALSE, frame[th].calls)
    /\ UNCHANGED <<slots, onDisk>>

NextCache ==
    \/ \E th \in Threads, name \in DbNames \cup {NulName}, create \in BOOLEAN :
         open_db_lock(th, name, create)
    \/ \E th \in Threads : open_db_lookup(th)
    \/ \E th \in Threads : open_db_begin(th)
    \/ \E th \in Threads : open_db_dbi_open(th)
    \/ \E th \in Threads : open_db_panic(th)
    \/ \E th \in Threads : open_db_commit(th)
    \/ \E th \in Threads : open_db_insert(th)

SpecCache == InitCache /\ [][NextCache]_vars

\* ============================================================= SpecCursor
\* a Cursor opened in a Normal transaction on a database whose contents stay
\* as they are while the cursor moves

\* the steps of SpecCursor move the cursor only
CursorOnly == UNCHANGED <<txnVars, cacheVars, items, dupsort, reverse, dreverse, iter, nx, yielded, env>>

\* without MDB_DUPSORT a key holds one value
OneValuePerKey(its) == \A i, j \in its : i[1] = j[1] => i = j

InitCursor ==
    /\ CacheIdle
    /\ env = EnvIdle
    /\ txn = [t \in TxnIds |-> NoTxnRec]
    /\ eng = [t \in TxnIds |-> NoHandle]
    /\ committed = EmptyStore
    /\ dbiOpen = TRUE
    /\ db_cache = [n \in {TestDbName} |-> TestDbi]
    /\ hist = [t \in TxnIds |-> Fresh]
    /\ durable = EmptyStore
    /\ last = NoOp
    /\ items \in SUBSET (CKeys \X CVals)
    /\ dupsort \in BOOLEAN
    /\ dupsort \/ OneValuePerKey(items)
    /\ reverse \in BOOLEAN
    /\ dreverse \in BOOLEAN
    /\ dreverse => dupsort
    /\ mc = [st |-> "unset", at |-> {}]
    /\ cursor = [key_val |-> {}, data_val |-> {}, valid_key |-> FALSE, valid_value |-> FALSE,
                 key_mem |-> "zeroed", data_mem |-> "zeroed"]
    /\ cres = [op |-> "init", target |-> {}, res |-> "none"]
    /\ IterIdle

\* ---- engine: the cursor
\* mdb_cmp: the database's key order, negative, zero or positive
mdb_cmp(a, b) == IF reverse THEN b - a ELSE a - b

\* mdb_dcmp: the order of the values of one key
mdb_dcmp(a, b) == IF dreverse THEN b - a ELSE a - b

StoredKeys == {i[1] : i \in items}
Dups(k) == {i[2] : i \in {j \in items : j[1] = k}}

\* the first and the last key of a set in the database's order
FirstKey(ks) == CHOOSE k \in ks : \A o \in ks : mdb_cmp(k, o) <= 0
LastKey(ks) == CHOOSE k \in ks : \A o \in ks : mdb_cmp(k, o) >= 0
\* the first and the last of a set of values in the order of duplicates
FirstVal(vs) == CHOOSE v \in vs : \A o \in vs : mdb_dcmp(v, o) <= 0
LastVal(vs) == CHOOSE v \in vs : \A o \in vs : mdb_dcmp(v, o) >= 0
FirstDup(k) == FirstVal(Dups(k))
LastDup(k) == LastVal(Dups(k))

\* F_DUPDATA: the key holds several values, kept in a sub-database that the
\* cursor walks with a sub-cursor; a key with one value has none
F_DUPDATA(k) == dupsort /\ Cardinality(Dups(k)) > 1

\* the engine's cursor:
\*   unset   not initialized
\*   at      on the item <<k, v>>
\*   end     initialized, past the last key
\*   key     on key k (which has F_DUPDATA), sub-cursor not initialized
\*   dupend  on key k, sub-cursor past the last duplicate
\* (the second component of `at` is 0 where there is no duplicate position)
Unset == [st |-> "unset", at |-> {}]
End == [st |-> "end", at |-> {}]
At(k, v) == [st |-> "at", at |-> {<<k, v>>}]
OnKey(k) == [st |-> "key", at |-> {<<k, 0>>}]
DupEnd(k) == [st |-> "dupend", at |-> {<<k, 0>>}]
Here(m) == CHOOSE i \in m.at : TRUE
OnSomeKey(m) == m.st \in {"at", "key", "dupend"}

\* what mdb_cursor_get gives: the code, the cursor afterwards, and the key
\* and value written back (none where the engine leaves the caller's MDB_val
\* as it was)
Got(code, m, key, data) == [code |-> code, mc |-> m, key |-> key, data |-> data]
Found(k, v) == Got("MDB_SUCCESS", At(k, v), {k}, {v})
NotFoundAt(m) == Got("MDB_NOTFOUND", m, {}, {})
Failed(code, m) == Got(code, m, {}, {})

\* a range search past the last key: an initialized cursor is left past the
\* end, one that was not initialized stays so
PastEnd(m) == IF m.st = "unset" THEN m ELSE End

\* a search for an exact key that is not stored: mdb_cursor_set returns
\* before it reads the node, so a cursor that was not initialized stays so,
\* and an initialized one is left at the place the key would be inserted,
\* with its sub-cursor not initialized
Landing(m, key) ==
    LET gt == {k \in StoredKeys : mdb_cmp(k, key) > 0}
    IN  IF m.st = "unset" THEN m
        ELSE IF gt = {} THEN End
        ELSE IF F_DUPDATA(FirstKey(gt)) THEN OnKey(FirstKey(gt))
        ELSE At(FirstKey(gt), FirstDup(FirstKey(gt)))

\* MDB_TXN_BLOCKED: the cursor's transaction (the read-write one) has a
\* nested transaction that is not finished; the engine then refuses every
\* call on the parent and on its cursors with MDB_BAD_TXN
TxnBlocked == \E c \in env.txns : c.parent = "rw"

\* mdb_cursor_get with the caller's key and data (sets of at most one value);
\* the operations and cursor states the wrapper issues them in
mdb_cursor_get(m, op, key, data) ==
    LET K == CHOOSE k \in key : TRUE
        V == CHOOSE v \in data : TRUE
    IN
    IF TxnBlocked THEN Failed("MDB_BAD_TXN", m) ELSE
    CASE op = "MDB_FIRST" ->
           IF items = {} THEN NotFoundAt(m)
           ELSE Found(FirstKey(StoredKeys), FirstDup(FirstKey(StoredKeys)))
      [] op = "MDB_LAST" ->
           IF items = {} THEN NotFoundAt(m)
           ELSE Found(LastKey(StoredKeys), LastDup(LastKey(StoredKeys)))
      [] op = "MDB_SET_KEY" ->
           IF K \in StoredKeys THEN Found(K, FirstDup(K))
           ELSE NotFoundAt(Landing(m, K))
      [] op = "MDB_SET_RANGE" ->
           LET ge == {k \in StoredKeys : mdb_cmp(k, K) >= 0}
           IN  IF ge = {} THEN NotFoundAt(PastEnd(m))
               ELSE Found(FirstKey(ge), FirstDup(FirstKey(ge)))
      [] op = "MDB_PREV_NODUP" ->
           IF ~OnSomeKey(m)
           THEN IF items = {} THEN NotFoundAt(m)
                ELSE Found(LastKey(StoredKeys), LastDup(LastKey(StoredKeys)))
           ELSE LET lt == {k \in StoredKeys : mdb_cmp(k, Here(m)[1]) < 0}
                IN  IF lt = {} THEN NotFoundAt(m)
                    ELSE Found(LastKey(lt), LastDup(LastKey(lt)))
      [] op = "MDB_NEXT_NODUP" /\ OnSomeKey(m) ->
           LET gt == {k \in StoredKeys : mdb_cmp(k, Here(m)[1]) > 0}
           IN  IF gt = {} THEN NotFoundAt(m)
               ELSE Found(FirstKey(gt), FirstDup(FirstKey(gt)))
      [] op = "MDB_NEXT_DUP" /\ ~dupsort /\ m.st = "at" ->
           \* mdb_cursor_next looks for duplicates only in a MDB_DUPSORT
           \* database; in any other it steps to the next key
           LET gt == {k \in StoredKeys : mdb_cmp(k, Here(m)[1]) > 0}
           IN  IF gt = {} THEN NotFoundAt(m)
               ELSE Found(FirstKey(gt), FirstDup(FirstKey(gt)))
      [] op = "MDB_NEXT_DUP" /\ dupsort /\ m.st = "at" ->
           LET gt == {v \in Dups(Here(m)[1]) : mdb_dcmp(v, Here(m)[2]) > 0}
           IN  IF gt = {} THEN NotFoundAt(m)
               ELSE Found(Here(m)[1], FirstVal(gt))
      [] op = "MDB_PREV_DUP" /\ dupsort /\ m.st = "at" ->
           LET lt == {v \in Dups(Here(m)[1]) : mdb_dcmp(v, Here(m)[2]) < 0}
           IN  IF lt = {} THEN NotFoundAt(m)
               ELSE Found(Here(m)[1], LastVal(lt))
      [] op = "MDB_PREV_DUP" /\ dupsort /\ m.st = "dupend" ->
           \* the sub-cursor steps back from past its end
           Found(Here(m)[1], LastDup(Here(m)[1]))
      [] op = "MDB_PREV_DUP" /\ dupsort /\ m.st = "end" ->
           \* there is no node to look for duplicates in: mdb_cursor_prev
           \* steps back to the last key
           Found(LastKey(StoredKeys), LastDup(LastKey(StoredKeys)))
      [] op = "MDB_FIRST_DUP" /\ m.st = "unset" -> Failed("EINVAL", m)
      [] op = "MDB_FIRST_DUP" /\ m.st = "at" ->
           IF ~dupsort THEN Failed("MDB_INCOMPATIBLE", m)
           ELSE IF F_DUPDATA(Here(m)[1])
           THEN Got("MDB_SUCCESS", At(Here(m)[1], FirstDup(Here(m)[1])),
                    {}, {FirstDup(Here(m)[1])})
           ELSE Got("MDB_SUCCESS", m, {Here(m)[1]}, {Here(m)[2]})
      [] op = "MDB_GET_BOTH_RANGE" ->
           IF ~dupsort THEN Failed("MDB_INCOMPATIBLE", m)
           ELSE IF K \notin StoredKeys THEN NotFoundAt(Landing(m, K))
           ELSE IF F_DUPDATA(K)
           THEN LET ge == {v \in Dups(K) : mdb_dcmp(v, V) >= 0}
                IN  IF ge = {} THEN NotFoundAt(DupEnd(K))
                    ELSE Got("MDB_SUCCESS", At(K, FirstVal(ge)), {}, {FirstVal(ge)})
           ELSE IF mdb_dcmp(V, FirstDup(K)) > 0
                THEN NotFoundAt(At(K, FirstDup(K)))
                ELSE Got("MDB_SUCCESS", At(K, FirstDup(K)), {}, {FirstDup(K)})

\* mdb_cursor_get(MDB_GET_CURRENT) asked for the key alone (data NULL) or
\* for the data alone (key NULL); the cursor stays where it is
mdb_get_current(m, want) ==
    IF TxnBlocked THEN Failed("MDB_BAD_TXN", m) ELSE
    CASE m.st = "unset" -> Failed("EINVAL", m)
      [] m.st = "end" -> NotFoundAt(m)
      [] want = "key" -> Got("MDB_SUCCESS", m, {Here(m)[1]}, {})
      [] m.st = "at" -> Got("MDB_SUCCESS", m, {}, {Here(m)[2]})
      [] m.st = "key" -> Failed("EINVAL", m)
      [] m.st = "dupend" -> NotFoundAt(m)

\* mdb_cursor_count: the number of values of the current key
mdb_cursor_count(m) ==
    IF ~dupsort THEN [code |-> "MDB_INCOMPATIBLE", count |-> 0]
    ELSE IF m.st = "unset" THEN [code |-> "EINVAL", count |-> 0]
    ELSE IF m.st = "end" THEN [code |-> "MDB_NOTFOUND", count |-> 0]
    ELSE IF m.st = "key" THEN [code |-> "EINVAL", count |-> 0]
    ELSE [code |-> "MDB_SUCCESS", count |-> Cardinality(Dups(Here(m)[1]))]

\* ---- cursor.rs
\* the Cursor and the engine's cursor together, with the result of the call
\* that led here
CurState(m, c) == [mc |-> m, cur |-> c, res |-> "Ok"]
One(s) == CHOOSE x \in s : TRUE

\* one statement after another: x is computed once and F goes on from it
Then(x, F(_)) == One({F(y) : y \in {x}})

\* whose memory key_val and data_val point to: "zeroed" (mem::zeroed, no
\* memory), "caller" (the argument of the call) or "engine" (the map).  On
\* success the engine writes the item's key into *key except for MDB_SET,
\* MDB_GET_BOTH, MDB_GET_BOTH_RANGE (the key given already matches) and
\* MDB_FIRST_DUP, MDB_LAST_DUP (which write the data only), and the item's
\* data into *data for every operation
WritesKey(op) ==
    op \notin {"MDB_SET", "MDB_GET_BOTH", "MDB_GET_BOTH_RANGE", "MDB_FIRST_DUP", "MDB_LAST_DUP"}
WritesData(op) == TRUE

\* a navigate that resets the flags only once the engine call succeeded
navigate_keeps_flags(s, op) ==
    Then(mdb_cursor_get(s.mc, op, s.cur.key_val, s.cur.data_val), LAMBDA g :
        IF g.code = "MDB_SUCCESS"
        THEN [mc |-> g.mc,
              cur |-> [key_val |-> IF g.key = {} THEN s.cur.key_val ELSE g.key,
                       data_val |-> IF g.data = {} THEN s.cur.data_val ELSE g.data,
                       valid_key |-> op # "MDB_SET",
                       valid_value |-> op # "MDB_GET_BOTH_RANGE",
                       key_mem |-> IF WritesKey(op) THEN "engine" ELSE s.cur.key_mem,
                       data_mem |-> IF WritesData(op) THEN "engine" ELSE s.cur.data_mem],
              res |-> "Ok"]
        ELSE [mc |-> g.mc, cur |-> s.cur, res |-> new_with_code(g.code)])

\* Cursor::navigate
navigate(s, op) ==
    Then(mdb_cursor_get(s.mc, op, s.cur.key_val, s.cur.data_val), LAMBDA g :
        IF g.code = "MDB_SUCCESS"
        THEN [mc |-> g.mc,
              cur |-> [key_val |-> IF g.key = {} THEN s.cur.key_val ELSE g.key,
                       data_val |-> IF g.data = {} THEN s.cur.data_val ELSE g.data,
                       valid_key |-> op # "MDB_SET",
                       valid_value |-> op # "MDB_GET_BOTH_RANGE",
                       key_mem |-> IF WritesKey(op) THEN "engine" ELSE s.cur.key_mem,
                       data_mem |-> IF WritesData(op) THEN "engine" ELSE s.cur.data_mem],
              res |-> "Ok"]
        ELSE [mc |-> g.mc,
              cur |-> [s.cur EXCEPT !.valid_key = FALSE, !.valid_value = FALSE],
              res |-> new_with_code(g.code)])

\* Cursor::move_to: the caller's key, and its value or a zeroed MDB_val
move_to(s, key, value, op) ==
    navigate([s EXCEPT !.cur.key_val = {key}, !.cur.data_val = value,
                       !.cur.key_mem = "caller",
                       !.cur.data_mem = IF value = {} THEN "zeroed" ELSE "caller"], op)

move_to_first(s) == navigate(s, "MDB_FIRST")
move_to_last(s) == navigate(s, "MDB_LAST")
move_to_key(s, key) == move_to(s, key, {}, "MDB_SET_KEY")

\* the lookup that takes nothing but the key itself
move_to_gte_key_exact(s, key) == move_to(s, key, {}, "MDB_SET_KEY")

\* move_to_gte_key
move_to_gte_key(s, key) == move_to(s, key, {}, "MDB_SET_RANGE")

\* the step that also visits the other values of the key
move_to_next_key_or_item(s) == navigate(s, "MDB_NEXT_DUP")

\* move_to_next_key
move_to_next_key(s) == navigate(s, "MDB_NEXT_NODUP")

move_to_next_item(s) == navigate(s, "MDB_NEXT_DUP")
move_to_prev_item(s) == navigate(s, "MDB_PREV_DUP")
move_to_first_item(s) == navigate(s, "MDB_FIRST_DUP")

\* the step back taken only when the key found is greater
needs_prev_if_greater(c, res) == c < 0

\* _move_to_prev: whether to step back after MDB_SET_RANGE (cursor.rs 111)
needs_prev(c, res) == c < 0 \/ res = "MDB_NOTFOUND"

\* Cursor::_move_to_prev
move_to_prev(s, key) ==
    Then(mdb_cursor_get(s.mc, "MDB_SET_RANGE", {key}, {}), LAMBDA g :
        LET key_val == IF g.code = "MDB_SUCCESS" THEN g.key ELSE {key}
            valid(w) == [mc |-> w.mc,
                         cur |-> [key_val |-> w.key, data_val |-> w.data,
                                  valid_key |-> TRUE, valid_value |-> TRUE,
                                  key_mem |-> "engine", data_mem |-> "engine"],
                         res |-> "Ok"]
            invalid(w) == [mc |-> w.mc,
                           cur |-> [key_val |-> key_val, data_val |-> g.data,
                                    valid_key |-> FALSE, valid_value |-> FALSE,
                                    key_mem |-> IF g.code = "MDB_SUCCESS" THEN "engine" ELSE "caller",
                                    data_mem |-> IF g.code = "MDB_SUCCESS" THEN "engine" ELSE "zeroed"],
                           res |-> new_with_code(w.code)]
        IN  IF g.code \in {"MDB_NOTFOUND", "MDB_SUCCESS"}
            THEN IF needs_prev(mdb_cmp(key, One(key_val)), g.code)
                 THEN Then(mdb_cursor_get(g.mc, "MDB_PREV_NODUP", key_val, g.data),
                           LAMBDA p : IF p.code = "MDB_SUCCESS" THEN valid(p)
                                      ELSE invalid(p))
                 ELSE IF g.code = "MDB_SUCCESS" THEN valid(g) ELSE invalid(g)
            ELSE invalid(g))

move_to_lte_key(s, key) == move_to_prev(s, key)

\* Cursor::ensure_key_valid
ensure_key_valid(s) ==
    IF s.cur.valid_key THEN [s EXCEPT !.res = "Ok"]
    ELSE Then(mdb_get_current(s.mc, "key"), LAMBDA g :
        IF g.code = "MDB_SUCCESS"
        THEN [s EXCEPT !.cur.key_val = g.key, !.cur.valid_key = TRUE,
                       !.cur.key_mem = "engine", !.res = "Ok"]
        ELSE [s EXCEPT !.res = new_with_code(g.code)])

\* Cursor::get_plain; get, get_key and get_value read key_val and data_val
\* of the state it gives
get_plain(s) ==
    Then(ensure_key_valid(s), LAMBDA e :
        IF e.res # "Ok" THEN e
        ELSE IF e.cur.valid_value THEN e
        ELSE Then(mdb_get_current(e.mc, "data"), LAMBDA g :
            IF g.code = "MDB_SUCCESS"
            THEN [e EXCEPT !.cur.data_val = g.data, !.cur.valid_value = TRUE,
                           !.cur.data_mem = "engine"]
            ELSE [e EXCEPT !.res = new_with_code(g.code)]))

\* the item the step back reached, its first duplicate not looked for
move_to_lte_key_any_item(s, key) == move_to_prev(s, key)

\* Cursor::move_to_lte_key_first_item
move_to_lte_key_first_item(s, key) ==
    Then(move_to_prev(s, key), LAMBDA r :
        IF r.res = "Ok" THEN move_to_first_item(r) ELSE r)

\* the last duplicate taken where every duplicate is smaller
move_to_gte_item_or_last(s, key, value) ==
    Then(move_to(s, key, {value}, "MDB_GET_BOTH_RANGE"), LAMBDA r :
        IF r.res = "Ok" THEN [r EXCEPT !.cur.valid_key = FALSE]
        ELSE IF r.mc.st = "dupend" THEN move_to_prev_item(r)
        ELSE r)

\* Cursor::move_to_gte_item
move_to_gte_item(s, key, value) ==
    Then(move_to(s, key, {value}, "MDB_GET_BOTH_RANGE"), LAMBDA r :
        IF r.res = "Ok" THEN [r EXCEPT !.cur.valid_key = FALSE] ELSE r)

\* the search forward alone, no step back to the previous item
move_to_lte_item_no_step(s, key, value) ==
    Then(move_to_gte_item(s, key, value), LAMBDA r :
        IF r.res \in {"Ok", "NotFound"} THEN get_plain(r) ELSE r)

\* Cursor::move_to_lte_item
move_to_lte_item(s, key, value) ==
    Then(move_to_gte_item(s, key, value), LAMBDA r :
        IF r.res \in {"Ok", "NotFound"}
        THEN Then(get_plain(r), LAMBDA g :
                 IF g.res = "Ok"
                 THEN IF mdb_dcmp(value, One(g.cur.data_val)) < 0
                      THEN move_to_prev_item(g)
                      ELSE g
                 ELSE IF g.res = "NotFound" THEN move_to_prev_item(g)
                 ELSE g)
        ELSE r)

\* Cursor::move_to_lte_key_and_item
move_to_lte_key_and_item(s, key, value) ==
    Then(move_to_lte_key_first_item(s, key), LAMBDA r :
        IF r.res # "Ok" THEN r
        ELSE Then(get_plain(r), LAMBDA g :
            IF g.res # "Ok" THEN g
            ELSE Then(move_to_lte_item(g, One(g.cur.key_val), value), LAMBDA l :
                IF l.res # "Ok" THEN l
                ELSE [l EXCEPT !.cur.valid_key = FALSE, !.cur.valid_value = FALSE])))

\* ---- the calls made on the Cursor
CursorResult(op, target, res) == [op |-> op, target |-> target, res |-> res]

\* a call took the Cursor and the engine's cursor to r
CursorCall(name, target, to) ==
    /\ CursorOnly
    /\ \E r \in {to} :
         /\ mc' = r.mc
         /\ cursor' = r.cur
         /\ cres' = CursorResult(name, target, r.res)

Now == CurState(mc, cursor)

Cursor_move_to_first == CursorCall("move_to_first", {}, move_to_first(Now))
Cursor_move_to_last == CursorCall("move_to_last", {}, move_to_last(Now))
Cursor_move_to_key(t) == CursorCall("move_to_key", {t}, move_to_key(Now, t))
Cursor_move_to_gte_key(t) == CursorCall("move_to_gte_key", {t}, move_to_gte_key(Now, t))
Cursor_move_to_lte_key(t) == CursorCall("move_to_lte_key", {t}, move_to_lte_key(Now, t))
Cursor_move_to_lte_key_first_item(t) ==
    CursorCall("move_to_lte_key_first_item", {t}, move_to_lte_key_first_item(Now, t))
Cursor_move_to_lte_key_and_item(t, v) ==
    CursorCall("move_to_lte_key_and_item", {<<t, v>>}, move_to_lte_key_and_item(Now, t, v))
Cursor_move_to_gte_item(t, v) ==
    CursorCall("move_to_gte_item", {<<t, v>>}, move_to_gte_item(Now, t, v))
Cursor_move_to_lte_item(t, v) ==
    CursorCall("move_to_lte_item", {<<t, v>>}, move_to_lte_item(Now, t, v))
Cursor_get == CursorCall("get", {}, get_plain(Now))

NextCursor ==
    \/ Cursor_move_to_first
    \/ Cursor_move_to_last
    \/ \E t \in Targets : Cursor_move_to_key(t)
    \/ \E t \in Targets : Cursor_move_to_gte_key(t)
    \/ \E t \in Targets : Cursor_move_to_lte_key(t)

SpecCursor == InitCursor /\ [][NextCursor]_vars

\* ============================================================== SpecItems
\* the same Cursor, moved by key and by item (key and value)
NextItems ==
    \/ Cursor_move_to_first
    \/ Cursor_move_to_last
    \/ \E t \in Targets : Cursor_move_to_key(t)
    \/ \E t \in Targets : Cursor_move_to_gte_key(t)
    \/ \E t \in Targets : Cursor_move_to_lte_key(t)
    \/ \E t \in Targets : Cursor_move_to_lte_key_first_item(t)
    \/ \E t \in Targets, v \in VTargets : Cursor_move_to_lte_key_and_item(t, v)
    \/ \E t \in Targets, v \in VTargets : Cursor_move_to_gte_item(t, v)
    \/ \E t \in Targets, v \in VTargets : Cursor_move_to_lte_item(t, v)
    \/ Cursor_get

SpecItems == InitCursor /\ [][NextItems]_vars

\* =============================================================== SpecIter
\* the iterators of Database (iter, keyrange_from, keyrange_to,
\* keyrange_from_to, keyrange, item_iter) over a database whose contents stay
\* as they are: each opens a Cursor of its own and wraps it

\* the steps of SpecIter
IterOnly == UNCHANGED <<txnVars, cacheVars, items, dupsort, reverse, dreverse, cres, env>>

\* calls of next() followed per iterator: enough to run past the end twice
MaxNext == MaxCKey + MaxCVal

\* the comparison that never takes the end key itself
is_less_strict(ord, or_equal) == ord = "Less"

\* IsLess::is_less for MdbResult<Ordering>
is_less(ord, or_equal) ==
    CASE ord = "Less" -> TRUE
      [] ord = "Equal" -> or_equal
      [] OTHER -> FALSE

\* the engine calls get_plain issues in state s
get_plain_calls(s) ==
    IF ~s.cur.valid_key
    THEN IF mdb_get_current(s.mc, "key").code = "MDB_SUCCESS" /\ ~s.cur.valid_value
         THEN <<"MDB_GET_CURRENT", "MDB_GET_CURRENT">>
         ELSE <<"MDB_GET_CURRENT">>
    ELSE IF ~s.cur.valid_value THEN <<"MDB_GET_CURRENT">> ELSE <<>>

\* Cursor::cmp_key: the cursor's key against another one
cmp_key(s, other) ==
    Then(get_plain(s), LAMBDA g :
        [s |-> g,
         calls |-> get_plain_calls(s),
         ord |-> IF g.res # "Ok" THEN "Err"
                 ELSE IF mdb_cmp(One(g.cur.key_val), other) < 0 THEN "Less"
                 ELSE IF mdb_cmp(One(g.cur.key_val), other) > 0 THEN "Greater"
                 ELSE "Equal"])

\* what a step of a policy gives: the cursor, whether there is an element,
\* and the engine calls made
Policy(s, ok, calls) == [s |-> s, ok |-> ok, calls |-> calls]

\* a move, then (for the iterators with an end) cursor.cmp_key(&end_key).is_less(..)
MovedInRange(to, op, bounded, end_key, end_inclusive) ==
    Then(to, LAMBDA r :
        IF r.res # "Ok" THEN Policy(r, FALSE, <<op>>)
        ELSE IF ~bounded THEN Policy(r, TRUE, <<op>>)
        ELSE Then(cmp_key(r, One(end_key)), LAMBDA c :
                 Policy(c.s, is_less(c.ord, end_inclusive), <<op>> \o c.calls)))

\* IterateCursor::init_cursor of the five policies
init_cursor(it, s) ==
    CASE it.inner = "CursorIter" ->
           MovedInRange(move_to_first(s), "MDB_FIRST", FALSE, {}, FALSE)
      [] it.inner = "CursorFromKeyIter" ->
           MovedInRange(move_to_gte_key(s, One(it.start_key)), "MDB_SET_RANGE", FALSE, {}, FALSE)
      [] it.inner = "CursorToKeyIter" ->
           MovedInRange(move_to_first(s), "MDB_FIRST", TRUE, it.end_key, FALSE)
      [] it.inner = "CursorKeyRangeIter" ->
           MovedInRange(move_to_gte_key(s, One(it.start_key)), "MDB_SET_RANGE",
                        TRUE, it.end_key, it.end_inclusive)
      [] it.inner = "CursorItemIter" ->
           MovedInRange(move_to_key(s, One(it.key)), "MDB_SET_KEY", FALSE, {}, FALSE)

\* the step that starts over from the first key
policy_move_to_next_wrapping(it, s) ==
    MovedInRange(move_to_first(s), "MDB_FIRST", FALSE, {}, FALSE)

\* IterateCursor::move_to_next of the five policies
policy_move_to_next(it, s) ==
    CASE it.inner \in {"CursorIter", "CursorFromKeyIter"} ->
           MovedInRange(move_to_next_key(s), "MDB_NEXT_NODUP", FALSE, {}, FALSE)
      [] it.inner = "CursorToKeyIter" ->
           MovedInRange(move_to_next_key(s), "MDB_NEXT_NODUP", TRUE, it.end_key, FALSE)
      [] it.inner = "CursorKeyRangeIter" ->
           MovedInRange(move_to_next_key(s), "MDB_NEXT_NODUP", TRUE, it.end_key,
                        it.end_inclusive)
      [] it.inner = "CursorItemIter" ->
           MovedInRange(move_to_next_item(s), "MDB_NEXT_DUP", FALSE, {}, FALSE)

\* Cursor::item_count
item_count(s) == mdb_cursor_count(s.mc)

\* IterateCursor::get_size_hint: the lower bound, and the upper one if any
get_size_hint(it, s) ==
    IF it.inner = "CursorItemIter" /\ item_count(s).code = "MDB_SUCCESS"
    THEN <<0, {item_count(s).count}>>
    ELSE <<0, {}>>

\* the iterator a Database method builds
CursorIterator(method, inner, start_key, end_key, end_inclusive, key) ==
    [method |-> method, inner |-> inner, start_key |-> start_key, end_key |-> end_key,
     end_inclusive |-> end_inclusive, key |-> key, has_data |-> FALSE]

\* Cursor::new
NewCursor ==
    CurState(Unset, [key_val |-> {}, data_val |-> {}, valid_key |-> FALSE, valid_value |-> FALSE,
                 key_mem |-> "zeroed", data_mem |-> "zeroed"])

\* CursorIterator::wrap on the Cursor the Database method just opened (a
\* new_cursor that fails returns its error before wrap); wrap takes the
\* Cursor by value, so a cursor is wrapped once
CursorIterator_wrap(it) ==
    /\ iter.method = "none"
    /\ ~TxnBlocked
    /\ IterOnly
    /\ \E i \in {init_cursor(it, NewCursor)} :
         /\ mc' = i.s.mc
         /\ cursor' = i.s.cur
         /\ iter' = [it EXCEPT !.has_data = i.ok]
         /\ nx' = NoNext
         /\ yielded' = <<>>

Database_iter ==
    CursorIterator_wrap(CursorIterator("iter", "CursorIter", {}, {}, FALSE, {}))
Database_keyrange_from(s) ==
    CursorIterator_wrap(CursorIterator("keyrange_from", "CursorFromKeyIter", {s}, {}, FALSE, {}))
Database_keyrange_to(e) ==
    CursorIterator_wrap(CursorIterator("keyrange_to", "CursorToKeyIter", {}, {e}, FALSE, {}))
Database_keyrange_from_to(s, e) ==
    CursorIterator_wrap(CursorIterator("keyrange_from_to", "CursorKeyRangeIter", {s}, {e}, FALSE, {}))
Database_keyrange(s, e) ==
    CursorIterator_wrap(CursorIterator("keyrange", "CursorKeyRangeIter", {s}, {e}, TRUE, {}))
Database_item_iter(k) ==
    CursorIterator_wrap(CursorIterator("item_iter", "CursorItemIter", {}, {}, FALSE, {k}))

\* what a call of next() did: its number, what it returned, the element,
\* the engine calls in order with the place of the fetch among them, and
\* where the engine's cursor was when it was called
NextDone(n, r, elem, calls, fetched, from) ==
    [n |-> n, ret |-> r, elem |-> elem, calls |-> calls, fetched |-> fetched, from |-> from]

\* a next() that moves on from the element it handed out only when it is
\* called again, and fetches after that
CursorIterator_next_lazy ==
    /\ iter.method # "none"
    /\ nx.n < MaxNext
    /\ IterOnly
    /\ IF ~iter.has_data
       THEN /\ nx' = NextDone(nx.n + 1, "None", {}, <<>>, 0, mc)
            /\ UNCHANGED <<mc, cursor, iter, yielded>>
       ELSE \E m \in {IF nx.ret = "Some" THEN policy_move_to_next(iter, Now)
                      ELSE Policy(Now, TRUE, <<>>)} :
            \E g \in {get_plain(m.s)} :
            /\ mc' = g.mc
            /\ cursor' = g.cur
            /\ iter' = [iter EXCEPT !.has_data = m.ok /\ g.res = "Ok"]
            /\ IF m.ok /\ g.res = "Ok"
               THEN /\ nx' = NextDone(nx.n + 1, "Some",
                                      {<<One(g.cur.key_val), One(g.cur.data_val)>>},
                                      m.calls \o get_plain_calls(m.s),
                                      Len(m.calls \o get_plain_calls(m.s)), mc)
                    /\ yielded' = Append(yielded, <<One(g.cur.key_val), One(g.cur.data_val)>>)
               ELSE /\ nx' = NextDone(nx.n + 1, "None", {}, m.calls, 0, mc)
                    /\ UNCHANGED yielded

\* Iterator::next for CursorIterator
CursorIterator_next ==
    /\ iter.method # "none"
    /\ nx.n < MaxNext
    /\ IterOnly
    /\ IF ~iter.has_data
       THEN /\ nx' = NextDone(nx.n + 1, "None", {}, <<>>, 0, mc)
            /\ UNCHANGED <<mc, cursor, iter, yielded>>
       ELSE \E g \in {get_plain(Now)} :
            IF g.res # "Ok"
            THEN /\ nx' = NextDone(nx.n + 1, "None", {}, get_plain_calls(Now), 0, mc)
                 /\ mc' = g.mc
                 /\ cursor' = g.cur
                 /\ UNCHANGED <<iter, yielded>>
            ELSE \E m \in {policy_move_to_next(iter, g)} :
                 /\ nx' = NextDone(nx.n + 1, "Some",
                                   {<<One(g.cur.key_val), One(g.cur.data_val)>>},
                                   get_plain_calls(Now) \o m.calls,
                                   Len(get_plain_calls(Now)), mc)
                 /\ mc' = m.s.mc
                 /\ cursor' = m.s.cur
                 /\ iter' = [iter EXCEPT !.has_data = m.ok]
                 /\ yielded' = Append(yielded, <<One(g.cur.key_val), One(g.cur.data_val)>>)

NextIter ==
    \/ Database_iter
    \/ \E s \in Targets : Database_keyrange_from(s)
    \/ \E e \in Targets : Database_keyrange_to(e)
    \/ \E s, e \in Targets : Database_keyrange_from_to(s, e)
    \/ \E s, e \in Targets : Database_keyrange(s, e)
    \/ \E k \in Targets : Database_item_iter(k)
    \/ CursorIterator_next

SpecIter == InitCursor /\ [][NextIter]_vars

\* ================================================================ SpecData
\* one Normal read-write transaction on one database: the point operations
\* of Database, made before a Cursor is opened on it, then one Cursor with
\* its searches and its write operations.  The contents the transaction
\* finds are any within the bounds.

\* the keys of SpecData; the values are CVals
MaxDKey == 2
DKeys == 1..MaxDKey

\* the steps of Database in SpecData change the contents only
DataOnly == UNCHANGED <<txnVars, cacheVars, dupsort, reverse, dreverse, mc, cursor, iter, nx, yielded, env>>

InitData ==
    /\ InitCursor
    /\ items \subseteq DKeys \X CVals

\* ---- engine: point operations on the stored items (liblmdb)
\* mdb_get: the value of the key, the first one where the key holds several
mdb_get_items(k) ==
    IF k \in StoredKeys THEN [code |-> "MDB_SUCCESS", data |-> {FirstDup(k)}]
    ELSE [code |-> "MDB_NOTFOUND", data |-> {}]

\* mdb_put.  MDB_NOOVERWRITE refuses a key that is present; MDB_APPEND takes
\* a key only after the last one stored; MDB_APPENDDUP takes a value for a
\* key that is present only after the last value of that key, and means
\* nothing without MDB_DUPSORT.  Otherwise the pair is stored: without
\* MDB_DUPSORT in place of the value the key had, with it next to the others
\* (nothing changes when the pair is there already).
mdb_put_items(k, v, flags) ==
    IF flags = "MDB_NOOVERWRITE" /\ k \in StoredKeys
    THEN [code |-> "MDB_KEYEXIST", items |-> items]
    ELSE IF flags = "MDB_APPEND" /\ \E j \in StoredKeys : mdb_cmp(k, j) <= 0
    THEN [code |-> "MDB_KEYEXIST", items |-> items]
    ELSE IF flags = "MDB_APPENDDUP" /\ dupsort /\ \E d \in Dups(k) : mdb_dcmp(v, d) <= 0
    THEN [code |-> "MDB_KEYEXIST", items |-> items]
    ELSE IF dupsort
    THEN [code |-> "MDB_SUCCESS", items |-> items \cup {<<k, v>>}]
    ELSE [code |-> "MDB_SUCCESS", items |-> {i \in items : i[1] # k} \cup {<<k, v>>}]

\* mdb_del: with data on a MDB_DUPSORT database that one pair, otherwise
\* (the data is ignored without MDB_DUPSORT) everything the key holds
mdb_del_items(k, data) ==
    IF k \notin StoredKeys THEN [code |-> "MDB_NOTFOUND", items |-> items]
    ELSE IF data = {} \/ ~dupsort
    THEN [code |-> "MDB_SUCCESS", items |-> {i \in items : i[1] # k}]
    ELSE IF data \subseteq Dups(k)
    THEN [code |-> "MDB_SUCCESS", items |-> items \ ({k} \X data)]
    ELSE [code |-> "MDB_NOTFOUND", items |-> items]

\* ---- database.rs
\* what a Database operation returned: target is its key, or its key and value
DataResult(op, target, res, val) == [op |-> op, target |-> target, res |-> res, val |-> val]

\* the Database writes of SpecData come before the Cursor is opened
NoCursorYet == mc.st = "unset" /\ cres.op \notin {"move_to_first", "move_to_last",
                   "move_to_key", "get", "item_count",
                   "del_item", "del_all", "add_item", "replace"}

\* Database::get -> get_value
Data_get(k) ==
    /\ DataOnly
    /\ \E g \in {mdb_get_items(k)} :
         cres' = DataResult("get_value", {k}, lift_mdb(g.code), g.data)
    /\ UNCHANGED items

\* a set that refuses a key that is present
set_flags_nooverwrite == "MDB_NOOVERWRITE"

\* the flags of Database::set (set_value: flags 0)
set_flags == PutFlags("set")

\* an insert that is a set
insert_flags_none == "0"

\* the flags of Database::insert
insert_flags == PutFlags("insert")

\* an append that is a set
append_flags_none == "0"

\* the flags of Database::append
append_flags == PutFlags("append")

\* the flags of Database::append_duplicate
append_duplicate_flags == PutFlags("append_duplicate")

\* set_value_with_flags
set_value_with_flags(op, k, v, flags) ==
    /\ NoCursorYet
    /\ DataOnly
    /\ \E p \in {mdb_put_items(k, v, flags)} :
         /\ items' = p.items
         /\ cres' = DataResult(op, {<<k, v>>}, lift_mdb(p.code), {})

Data_set(k, v) == set_value_with_flags("set", k, v, set_flags)
Data_insert(k, v) == set_value_with_flags("insert", k, v, insert_flags)
Data_append(k, v) == set_value_with_flags("append", k, v, append_flags)
Data_append_duplicate(k, v) ==
    set_value_with_flags("append_duplicate", k, v, append_duplicate_flags)

\* the data Database::del hands to mdb_del: ptr::null_mut()
del_data(v) == {}

\* a del_item that hands the engine no value
del_item_data_null(v) == {}

\* the data Database::del_item hands to mdb_del
del_item_data(v) == {v}

\* Database::del -> del_value
Data_del(k) ==
    /\ NoCursorYet
    /\ DataOnly
    /\ \E d \in {mdb_del_items(k, del_data(0))} :
         /\ items' = d.items
         /\ cres' = DataResult("del", {k}, lift_mdb(d.code), {})

\* Database::del_item
Data_del_item(k, v) ==
    /\ NoCursorYet
    /\ DataOnly
    /\ \E d \in {mdb_del_items(k, del_item_data(v))} :
         /\ items' = d.items
         /\ cres' = DataResult("del_item_of", {<<k, v>>}, lift_mdb(d.code), {})

\* ---- engine: writes through a cursor (liblmdb)
\* where the cursor is once everything key k held is gone: on the first item
\* of the key after it, past the end when there is none, and not initialized
\* when the tree is empty
AfterKey(k, left) ==
    IF left = {} THEN Unset
    ELSE Then({j \in StoredKeys : mdb_cmp(j, k) > 0}, LAMBDA gt :
        IF gt = {} THEN End ELSE At(FirstKey(gt), FirstDup(FirstKey(gt))))

\* what a write through the cursor gives: the code, the cursor and the
\* stored items afterwards
Wrote2(code, m, its) == [code |-> code, mc |-> m, items |-> its]

\* mdb_cursor_del: flags 0 deletes the current item, MDB_NODUPDATA all the
\* items of the current key.  After the last duplicate of a key that keeps
\* others the sub-cursor is past its end; a key left without items is
\* deleted and the cursor is on what follows it.
mdb_cursor_del(m, flags) ==
    CASE m.st = "unset" -> Wrote2("EINVAL", m, items)
      [] m.st = "end" -> Wrote2("MDB_NOTFOUND", m, items)
      [] flags = "MDB_NODUPDATA" \/ (m.st = "at" /\ Dups(Here(m)[1]) = {Here(m)[2]}) ->
           Then({i \in items : i[1] # Here(m)[1]}, LAMBDA left :
               Wrote2("MDB_SUCCESS", AfterKey(Here(m)[1], left), left))
      [] m.st = "at" ->
           Then({v \in Dups(Here(m)[1]) : mdb_dcmp(v, Here(m)[2]) > 0}, LAMBDA rest :
               Wrote2("MDB_SUCCESS",
                      IF rest = {} THEN DupEnd(Here(m)[1])
                      ELSE At(Here(m)[1], FirstVal(rest)),
                      items \ m.at))
      [] m.st = "dupend" -> Wrote2("MDB_NOTFOUND", m, items)
      [] m.st = "key" -> Wrote2("EINVAL", m, items)

\* MDB_CURRENT with MDB_DUPSORT: the new value must sort where the old one
\* did among the values of the key (the caller's obligation)
SortsInPlace(k, old, v) ==
    dupsort => \A d \in Dups(k) \ {old} :
                   /\ mdb_dcmp(v, d) # 0
                   /\ (mdb_dcmp(v, d) < 0) = (mdb_dcmp(old, d) < 0)

\* mdb_cursor_put: flags 0 stores the pair as mdb_put does and leaves the
\* cursor on it; MDB_CURRENT overwrites the value of the item the cursor is
\* on, whatever the key handed in (the cursor is on an item where the
\* wrapper is used with MDB_CURRENT here)
mdb_cursor_put(m, key, data, flags) ==
    CASE flags = "0" ->
           Wrote2("MDB_SUCCESS", At(key, data), mdb_put_items(key, data, "0").items)
      [] flags = "MDB_CURRENT" /\ m.st = "unset" -> Wrote2("EINVAL", m, items)
      [] flags = "MDB_CURRENT" /\ m.st = "at" ->
           Wrote2("MDB_SUCCESS", At(Here(m)[1], data),
                  (items \ m.at) \cup {<<Here(m)[1], data>>})

\* ---- cursor.rs: the write operations
\* the Cursor, the engine's cursor and the stored items after a write
Written(s, its) == [mc |-> s.mc, cur |-> s.cur, res |-> s.res, items |-> its]

\* Cursor::set_value
set_value(s, value, flags) ==
    Then(ensure_key_valid(s), LAMBDA e :
        IF e.res # "Ok" THEN Written(e, items)
        ELSE Then(mdb_cursor_put(e.mc, One(e.cur.key_val), value, flags), LAMBDA p :
            [mc |-> p.mc,
             cur |-> [e.cur EXCEPT !.data_val = {value}, !.data_mem = "caller"],
             res |-> lift_mdb(p.code),
             items |-> p.items]))

\* self.valid_key = false after a write
key_dropped(w) == [w EXCEPT !.cur.valid_key = FALSE]

\* Cursor::replace
replace(s, value) == key_dropped(set_value(s, value, "MDB_CURRENT"))

\* Cursor::add_item
add_item(s, value) == key_dropped(set_value(s, value, "0"))

\* Cursor::del_value
del_value(s, flags) ==
    Then(mdb_cursor_del(s.mc, flags), LAMBDA d :
        [mc |-> d.mc, cur |-> s.cur, res |-> lift_mdb(d.code), items |-> d.items])

\* a del_item that deletes all the items of the key
del_item_all(s) == key_dropped(del_value(s, "MDB_NODUPDATA"))

\* Cursor::del_item
del_item(s) == key_dropped(del_value(s, "0"))

\* Cursor::del_all (and del)
del_all(s) == del_value(s, "MDB_NODUPDATA")

\* the cursor was placed by a search that succeeded (valid_value is set by
\* one and cleared by one that fails; the writes leave it)
Positioned == cursor.valid_value

\* the steps of the Cursor that write
WriteOnly == UNCHANGED <<txnVars, cacheVars, dupsort, reverse, dreverse, iter, nx, yielded, env>>

CursorWrite(name, target, to) ==
    /\ Positioned
    /\ WriteOnly
    /\ \E w \in {to} :
         /\ mc' = w.mc
         /\ cursor' = w.cur
         /\ items' = w.items
         /\ cres' = DataResult(name, target, w.res, {})

\* the values written through the cursor
WVals == 1..MaxCVal + 1

\* key_val and data_val point into the page of the item the cursor was on.
\* A delete rewrites that page (the nodes after the deleted one are moved
\* down over it) or frees it, so what a pointer that is still taken as
\* valid reads afterwards is any key, any value.
DVals == CVals \cup WVals
AfterDelete(w) ==
    IF w.res # "Ok" THEN {w.cur}
    ELSE {[w.cur EXCEPT !.key_val = k, !.data_val = d] :
            k \in (IF w.cur.valid_key THEN {{j} : j \in DKeys} ELSE {w.cur.key_val}),
            d \in (IF w.cur.valid_value THEN {{v} : v \in DVals} ELSE {w.cur.data_val})}

CursorDelete(name, to) ==
    /\ Positioned
    /\ WriteOnly
    /\ \E w \in {to} :
         /\ mc' = w.mc
         /\ cursor' \in AfterDelete(w)
         /\ items' = w.items
         /\ cres' = DataResult(name, {}, w.res, {})

Cursor_del_item == CursorDelete("del_item", del_item(Now))
Cursor_del_all == CursorDelete("del_all", del_all(Now))
Cursor_add_item(v) == CursorWrite("add_item", {v}, add_item(Now, v))
Cursor_replace(v) ==
    /\ mc.st = "at"
    /\ SortsInPlace(Here(mc)[1], Here(mc)[2], v)
    /\ CursorWrite("replace", {v}, replace(Now, v))

\* Cursor::item_count
Cursor_item_count ==
    /\ Positioned
    /\ CursorOnly
    /\ UNCHANGED <<mc, cursor>>
    /\ \E c \in {item_count(Now)} :
         cres' = DataResult("item_count", {}, lift_mdb(c.code), {c.count})

\* Cursor::get on a cursor that was placed: the key and value it returns
Cursor_get_item ==
    /\ Positioned
    /\ CursorOnly
    /\ \E g \in {get_plain(Now)} :
         /\ mc' = g.mc
         /\ cursor' = g.cur
         /\ cres' = DataResult("get", {}, g.res,
                               IF g.res = "Ok" THEN g.cur.key_val \X g.cur.data_val ELSE {})

NextData ==
    \/ \E k \in DKeys : Data_get(k)
    \/ \E k \in DKeys, v \in CVals : Data_set(k, v)
    \/ \E k \in DKeys, v \in CVals : Data_insert(k, v)
    \/ \E k \in DKeys, v \in CVals : Data_append(k, v)
    \/ \E k \in DKeys, v \in CVals : Data_append_duplicate(k, v)
    \/ \E k \in DKeys : Data_del(k)
    \/ \E k \in DKeys, v \in CVals : Data_del_item(k, v)
    \/ Cursor_move_to_first
    \/ Cursor_move_to_last
    \/ \E k \in DKeys : Cursor_move_to_key(k)
    \/ Cursor_get_item
    \/ Cursor_item_count
    \/ Cursor_del_item
    \/ Cursor_del_all
    \/ \E v \in WVals : Cursor_add_item(v)
    \/ \E v \in WVals : Cursor_replace(v)

SpecData == InitData /\ [][NextData]_vars

\* ================================================================= SpecEnv
\* one engine environment, opened read-only or read-write, and the
\* Environment values (the one EnvBuilder::open returned and its clones)
\* that share its handle.  env holds
\*   is_readonly  Environment.is_readonly
\*   holders      the Environment values alive (the count of Arc<EnvHandle>)
\*   closes       the calls of mdb_env_close made so far
\*   txns         the transactions alive: [id, parent, rdonly]
\*   begun        history: parent kind and flag of every transaction the
\*                engine began
\*   cached       whether db_cache holds the database's name
\*   last         the last operation: its name, result and engine calls

\* the Environment values that may share the handle
MaxHolders == 3

EnvOnly == UNCHANGED <<txnVars, cacheVars, cursorVars>>

InitEnv ==
    /\ CacheIdle
    /\ CursorIdle
    /\ txn = [t \in TxnIds |-> NoTxnRec]
    /\ eng = [t \in TxnIds |-> NoHandle]
    /\ committed = EmptyStore
    /\ dbiOpen = TRUE
    /\ db_cache = [n \in {TestDbName} |-> TestDbi]
    /\ hist = [t \in TxnIds |-> Fresh]
    /\ durable = EmptyStore
    /\ last = NoOp
    /\ \E ro \in BOOLEAN : env = [EnvIdle EXCEPT !.is_readonly = ro]

EnvTxn(id, parent, rdonly) == [id |-> id, parent |-> parent, rdonly |-> rdonly]
LiveTxn(id) == \E t \in env.txns : t.id = id
TxnOf(id) == CHOOSE t \in env.txns : t.id = id
\* "none", "ro" or "rw": what the parent handed to mdb_txn_begin is
ParentKind(parent) ==
    IF parent = "none" THEN "none" ELSE IF TxnOf(parent).rdonly THEN "ro" ELSE "rw"

\* ---- engine: mdb_txn_begin (liblmdb).  A read-only environment begins
\* read-only transactions only; nested transactions are write transactions
\* of a write transaction that has no child.
mdb_txn_begin(parent, flags) ==
    IF env.is_readonly /\ flags # "MDB_RDONLY" THEN "EACCES"
    ELSE IF parent = "none" THEN "MDB_SUCCESS"
    ELSE IF TxnOf(parent).rdonly THEN "EINVAL"
    ELSE IF flags = "MDB_RDONLY" \/ \E c \in env.txns : c.parent = parent THEN "MDB_BAD_TXN"
    ELSE "MDB_SUCCESS"

EnvOp(op, res, calls) == [op |-> op, res |-> res, calls |-> calls]

\* a child wrapper made whatever mdb_txn_begin returned
new_child_created_always(code) == TRUE

\* try_mdb! in NativeTransaction::new_child, lift_mdb! in create_transaction:
\* the wrapper is made when the engine returned MDB_SUCCESS
new_child_created(code) == code = "MDB_SUCCESS"

\* mdb_txn_begin called for a wrapper: create_transaction and new_child
Begin(op, id, parent, flags) ==
    /\ EnvOnly
    /\ env.holders > 0
    /\ ~LiveTxn(id)
    /\ \E code \in {mdb_txn_begin(parent, flags)} :
         env' = [env EXCEPT
            !.txns = IF new_child_created(code)
                     THEN @ \cup {EnvTxn(id, parent, flags = "MDB_RDONLY")} ELSE @,
            !.begun = IF code = "MDB_SUCCESS"
                      THEN @ \cup {[parent |-> ParentKind(parent),
                                    rdonly |-> flags = "MDB_RDONLY"]}
                      ELSE @,
            !.last = EnvOp(op, lift_mdb(code), <<"mdb_txn_begin">>)]

\* a new_transaction that does not look at is_readonly
new_transaction_unchecked(ro) == FALSE

\* Environment::new_transaction: if self.is_readonly { return Err(StateError) }
new_transaction_refused(ro) == ro

\* Environment::new_transaction (a second write transaction would wait for
\* the first)
Environment_new_transaction ==
    IF new_transaction_refused(env.is_readonly)
    THEN /\ EnvOnly
         /\ env.holders > 0
         /\ env' = [env EXCEPT !.last = EnvOp("new_transaction", "StateError", <<>>)]
    ELSE Begin("new_transaction", "rw", "none", "0")

\* Environment::get_reader
Environment_get_reader == Begin("get_reader", "ro", "none", "MDB_RDONLY")

\* Transaction::new_child
Transaction_new_child ==
    /\ LiveTxn("rw")
    /\ Begin("new_child", "rw_child", "rw", "0")

\* Transaction::new_ro_child
Transaction_new_ro_child ==
    /\ LiveTxn("rw")
    /\ Begin("new_ro_child", "ro_child_of_rw", "rw", "MDB_RDONLY")

\* ReadonlyTransaction::new_ro_child
ReadonlyTransaction_new_ro_child ==
    /\ LiveTxn("ro")
    /\ Begin("ro_new_ro_child", "ro_child_of_ro", "ro", "MDB_RDONLY")

\* commit, abort or drop of a transaction (its children borrow it, so they
\* are gone before it)
Transaction_end(id) ==
    /\ EnvOnly
    /\ LiveTxn(id)
    /\ ~\E c \in env.txns : c.parent = id
    /\ env' = [env EXCEPT !.txns = @ \ {TxnOf(id)},
                          !.last = EnvOp("end", "Ok", <<"mdb_txn_end">>)]

\* an opening transaction that is always read-write
txflags_rw(ro) == "0"

\* _open_db: let txflags = if self.is_readonly { MDB_RDONLY } else { 0 }
txflags(ro) == IF ro THEN "MDB_RDONLY" ELSE "0"

\* Environment::get_db of a database that exists: the cached handle, or
\* create_transaction(None, txflags), mdb_dbi_open, commit, insert (a
\* read-write opening transaction would wait for a live write transaction)
Environment_get_db ==
    /\ EnvOnly
    /\ env.holders > 0
    /\ IF env.cached
       THEN env' = [env EXCEPT !.last = EnvOp("get_db", "Ok", <<>>)]
       ELSE \E fl \in {txflags(env.is_readonly)} :
            /\ fl = "0" => ~LiveTxn("rw")
            /\ \E code \in {mdb_txn_begin("none", fl)} :
                 IF code # "MDB_SUCCESS"
                 THEN env' = [env EXCEPT
                        !.last = EnvOp("get_db", lift_mdb(code), <<"mdb_txn_begin">>)]
                 ELSE env' = [env EXCEPT
                        !.begun = @ \cup {[parent |-> "none", rdonly |-> fl = "MDB_RDONLY"]},
                        !.cached = TRUE,
                        !.last = EnvOp("get_db", "Ok",
                                       <<"mdb_txn_begin", "mdb_dbi_open", "mdb_txn_commit">>)]

\* Clone for Environment: one more holder of the same Arc<EnvHandle>
Environment_clone ==
    /\ EnvOnly
    /\ env.holders > 0
    /\ env.holders < MaxHolders
    /\ env' = [env EXCEPT !.holders = @ + 1, !.last = EnvOp("clone", "Ok", <<>>)]

\* EnvBuilder::open hands from_raw the pointer mdb_env_create wrote, after
\* mdb_env_open succeeded: it is not null
handle_is_null == FALSE

\* Drop for EnvHandle: if self.0.is_null() { mdb_env_close(self.0) }
EnvHandle_drop(is_null) == IF is_null THEN 1 ELSE 0

\* an Environment value is dropped (transactions borrow the value they were
\* made from, so the last one outlives them); the Arc drops the EnvHandle
\* with its last holder
Environment_drop ==
    /\ EnvOnly
    /\ env.holders > 0
    /\ env.holders > 1 \/ env.txns = {}
    /\ env' = [env EXCEPT
          !.holders = @ - 1,
          !.closes = IF env.holders = 1 THEN @ + EnvHandle_drop(handle_is_null) ELSE @,
          !.last = EnvOp("drop", "Ok",
                         IF env.holders = 1 /\ EnvHandle_drop(handle_is_null) = 1
                         THEN <<"mdb_env_close">> ELSE <<>>)]

NextEnv ==
    \/ Environment_new_transaction
    \/ Environment_get_reader
    \/ Transaction_new_child
    \/ Transaction_new_ro_child
    \/ ReadonlyTransaction_new_ro_child
    \/ \E id \in {"rw", "ro", "rw_child"} : Transaction_end(id)
    \/ Environment_get_db
    \/ Environment_clone
    \/ Environment_drop

SpecEnv == InitEnv /\ [][NextEnv]_vars

\* ============================================================ SpecIterChild
\* the iterators of SpecIter on a read-write transaction that, while an
\* iterator is in use, begins a nested transaction and ends it (new_child
\* borrows the parent as the iterator's cursor does)
InitIterChild ==
    /\ CacheIdle
    /\ txn = [t \in TxnIds |-> NoTxnRec]
    /\ eng = [t \in TxnIds |-> NoHandle]
    /\ committed = EmptyStore
    /\ dbiOpen = TRUE
    /\ db_cache = [n \in {TestDbName} |-> TestDbi]
    /\ hist = [t \in TxnIds |-> Fresh]
    /\ durable = EmptyStore
    /\ last = NoOp
    /\ items \in SUBSET ((1..MaxDKey) \X CVals)
    /\ dupsort \in BOOLEAN
    /\ dupsort \/ OneValuePerKey(items)
    /\ reverse = FALSE
    /\ dreverse = FALSE
    /\ mc = [st |-> "unset", at |-> {}]
    /\ cursor = [key_val |-> {}, data_val |-> {}, valid_key |-> FALSE, valid_value |-> FALSE,
                 key_mem |-> "zeroed", data_mem |-> "zeroed"]
    /\ cres = [op |-> "init", target |-> {}, res |-> "none"]
    /\ IterIdle
    /\ env = [EnvIdle EXCEPT !.txns = {EnvTxn("rw", "none", FALSE)}]

NextIterChild ==
    \/ Database_iter
    \/ \E s \in DKeys : Database_keyrange_from(s)
    \/ \E e \in DKeys : Database_keyrange_to(e)
    \/ \E s, e \in DKeys : Database_keyrange_from_to(s, e)
    \/ \E s, e \in DKeys : Database_keyrange(s, e)
    \/ \E k \in DKeys : Database_item_iter(k)
    \/ CursorIterator_next
    \/ Transaction_new_child
    \/ Transaction_end("rw_child")

SpecIterChild == InitIterChild /\ [][NextIterChild]_vars

\* ================================================================== SpecErr
\* MdbError::new_with_code and the macros lift_mdb! and try_mdb! on the
\* engine's return codes as integers (c_int)

\* the engine's codes named in core.rs and tests.rs (lmdb.h)
MDB_SUCCESS == 0
MDB_KEYEXIST == -30799
MDB_NOTFOUND == -30798
MDB_CORRUPTED == -30796
MDB_PANIC == -30795
MDB_MAP_FULL == -30792
MDB_TXN_FULL == -30788
MDB_CURSOR_FULL == -30787
MDB_PAGE_FULL == -30786

\* the engine has NumEngineCodes codes of its own, from MDB_KEYEXIST upwards;
\* the other codes are errno values, taken up to MaxErrno
NumEngineCodes == 20
MaxErrno == 22
ErrCodes == (MDB_KEYEXIST .. MDB_KEYEXIST + NumEngineCodes - 1) \cup (MDB_SUCCESS .. MaxErrno)

\* an MdbError: the variant and, for Other(c_int, String), the code it
\* carries; the String is error_msg(code), a function of the code
MdbError(variant, code) == [variant |-> variant, code |-> code]

\* MdbError::new_with_code on the integer code
MdbError_new_other_zero(code) == MdbError("Other", {MDB_SUCCESS})
MdbError_new_other(code) == MdbError("Other", {code})
MdbError_new_with_code(code) ==
    CASE code = MDB_NOTFOUND -> MdbError("NotFound", {})
      [] code = MDB_KEYEXIST -> MdbError("KeyExists", {})
      [] code = MDB_TXN_FULL -> MdbError("TxnFull", {})
      [] code = MDB_CURSOR_FULL -> MdbError("CursorFull", {})
      [] code = MDB_PAGE_FULL -> MdbError("PageFull", {})
      [] code = MDB_CORRUPTED -> MdbError("Corrupted", {})
      [] code = MDB_PANIC -> MdbError("Panic", {})
      [] OTHER -> MdbError_new_other(code)

\* lift_mdb!(e, r) and try_mdb!(e): Ok for MDB_SUCCESS, else the function
\* returns Err(new_with_code(e))
lift_mdb_code(code) ==
    IF code = MDB_SUCCESS
    THEN [ok |-> TRUE, err |-> {}]
    ELSE [ok |-> FALSE, err |-> {MdbError_new_with_code(code)}]

ErrOnly == UNCHANGED <<txnVars, cacheVars, items, dupsort, reverse, dreverse, mc, cursor, iter, nx, yielded, env>>

InitErr == InitEnv

\* a function of this layer gets the code from an engine call
MdbError_new(code) ==
    /\ cres' = [op |-> "new_with_code", target |-> {code},
                res |-> [ok |-> FALSE, err |-> {MdbError_new_with_code(code)}]]
    /\ ErrOnly

lift_mdb_used(code) ==
    /\ cres' = [op |-> "lift_mdb", target |-> {code}, res |-> lift_mdb_code(code)]
    /\ ErrOnly

try_mdb_used(code) ==
    /\ cres' = [op |-> "try_mdb", target |-> {code}, res |-> lift_mdb_code(code)]
    /\ ErrOnly

NextErr ==
    \/ \E c \in ErrCodes : MdbError_new(c)
    \/ \E c \in ErrCodes : lift_mdb_used(c)
    \/ \E c \in ErrCodes : try_mdb_used(c)

SpecErr == InitErr /\ [][NextErr]_vars


\* ================================================================ SpecOpen
\* the threads of SpecCache, each of which may also hold a read-write
\* transaction of its own (Environment::new_transaction ... commit) while it
\* calls get_db or create_db; a call is followed from the moment the thread
\* asks for the cache lock

\* the thread's own read-write transaction
OwnTxn(th) == EnvTxn(th, "none", FALSE)
HoldsWrite(th) == OwnTxn(th) \in env.txns

\* Environment::new_transaction by a thread that is in no call of get_db and
\* holds no transaction: mdb_txn_begin waits for the writer mutex
Thread_new_transaction(th) ==
    /\ EnvOnly
    /\ pc[th] = "idle"
    /\ ~HoldsWrite(th)
    /\ WriterFree(th)
    /\ env' = [env EXCEPT !.txns = @ \cup {OwnTxn(th)}]

\* Transaction::commit by a thread that is in no call of get_db
Thread_commit(th) ==
    /\ EnvOnly
    /\ pc[th] = "idle"
    /\ HoldsWrite(th)
    /\ env' = [env EXCEPT !.txns = @ \ {OwnTxn(th)}]

\* get_db (create FALSE) or create_db (create TRUE) is called: the thread is
\* at self.db_cache.lock()
open_db_call(th, name, create) ==
    /\ CacheOnly
    /\ pc[th] = "idle"
    /\ pc' = [pc EXCEPT ![th] = "calling"]
    /\ frame' = [frame EXCEPT ![th] = [NoFrame EXCEPT !.name = name, !.create = create]]
    /\ UNCHANGED <<lock, db_cache, slots, onDisk, ret, returned>>

\* self.db_cache.lock() returns: the mutex was free
open_db_locked(th) ==
    /\ CacheOnly
    /\ pc[th] = "calling"
    /\ Mutex_lock(th)
    /\ IF env.poisoned
       THEN /\ Return(th, "CacheError", {}, FALSE, <<>>)
            /\ UNCHANGED <<db_cache, slots, onDisk>>
       ELSE /\ lock' = {th}
            /\ pc' = [pc EXCEPT ![th] = "locked"]
            /\ UNCHANGED <<frame, db_cache, slots, onDisk, ret, returned>>

NextOpen ==
    \/ \E th \in Threads : Thread_new_transaction(th)
    \/ \E th \in Threads : Thread_commit(th)
    \/ \E th \in Threads, name \in DbNames, create \in BOOLEAN : open_db_call(th, name, create)
    \/ \E th \in Threads : open_db_locked(th)
    \/ \E th \in Threads : open_db_lookup(th)
    \/ \E th \in Threads : open_db_begin(th)
    \/ \E th \in Threads : open_db_dbi_open(th)
    \/ \E th \in Threads : open_db_commit(th)
    \/ \E th \in Threads : open_db_insert(th)

SpecOpen == InitCache /\ [][NextOpen]_vars

\* ================================================================= claims
\* the subject of the last operation
LastRo == is_readonly(last.who)
LastChild == Parent(last.who) # NoTxn

\* the wrapper, while it exists, is in the state the operation left
LastPostHeld == Alive(last.who) => txn[last.who].state = last.post

CommitOps == {"commit", "Transaction_commit"}
AbortOps == {"abort", "Transaction_abort"}
GatedOps == {"commit", "get", "clear", "del_db"} \cup PutOps \cup DelOps

\* C1: commit, get, set, insert, append, append_duplicate, del, del_item,
\* clear and del_db on a transaction that is not Normal return StateError,
\* call the engine not at all and change neither the transaction state nor
\* the stored data nor the handle cache.
C1_StateErrorBeforeEngine ==
    [][(last'.op \in GatedOps /\ last'.pre # "Normal")
         => /\ last'.res = "StateError"
            /\ last'.calls = <<>>
            /\ last'.post = last'.pre
            /\ UNCHANGED <<txn, eng, committed, dbiOpen, db_cache>>]_vars

\* a set on a committed read-write transaction was refused
C1_Witness ==
    /\ last.op = "set" /\ last.pre = "Invalid" /\ last.res = "StateError"
    /\ eng[last.who].h = "committed"

\* C2: commit on a Normal transaction leaves a read-write transaction Invalid
\* and a read-only one Released, whether the engine commit succeeds or fails;
\* it makes the one engine call and returns Ok or the engine's error.
C2_CommitAdvancesState ==
    (last.op \in CommitOps /\ last.pre = "Normal")
        => /\ last.post = (IF LastRo THEN "Released" ELSE "Invalid")
           /\ LastPostHeld
           /\ last.calls = <<"mdb_txn_commit">>
           /\ last.res \in {"Ok", "Other"}

\* the engine refused the commit of a read-write transaction, which is Invalid
C2_Witness ==
    /\ last.op = "commit" /\ ~LastRo /\ last.pre = "Normal"
    /\ last.res = "Other" /\ txn[last.who].state = "Invalid"

\* C3: abort on a transaction that is not Normal changes nothing and calls
\* the engine not at all; on a Normal transaction it makes exactly one engine
\* abort and leaves read-write Invalid, read-only Released.
C3_Abort ==
    last.op \in AbortOps
        => IF last.pre # "Normal"
           THEN last.post = last.pre /\ last.calls = <<>> /\ LastPostHeld
           ELSE /\ last.calls = <<"mdb_txn_abort">>
                /\ last.post = (IF LastRo THEN "Released" ELSE "Invalid")
                /\ LastPostHeld

\* a Normal read-only transaction was aborted and is Released
C3_Witness ==
    /\ last.op = "abort" /\ LastRo /\ last.pre = "Normal"
    /\ txn[last.who].state = "Released" /\ eng[last.who].h = "aborted"

\* C4: for a read-only transaction, reset in Normal leaves it Released and
\* ends the snapshot with mdb_txn_reset only, so the handle stays; reset in
\* another state changes nothing.  renew in Released makes one engine renew,
\* leaves Normal on success, Released with the engine's error on failure;
\* renew elsewhere is a StateError without engine call.  get on a read-only
\* transaction that is Normal (again) is passed to the engine.
C4_ResetRenew ==
    /\ (last.op = "reset" /\ LastRo)
         => IF last.pre = "Normal"
            THEN last.post = "Released" /\ last.calls = <<"mdb_txn_reset">> /\ LastPostHeld
            ELSE last.post = last.pre /\ last.calls = <<>> /\ LastPostHeld
    /\ (last.op = "renew" /\ LastRo)
         => IF last.pre = "Released"
            THEN /\ last.calls = <<"mdb_txn_renew">>
                 /\ last.res \in {"Ok", "Other"}
                 /\ last.post = (IF last.res = "Ok" THEN "Normal" ELSE "Released")
                 /\ LastPostHeld
            ELSE /\ last.res = "StateError" /\ last.calls = <<>>
                 /\ last.post = last.pre /\ LastPostHeld
    /\ (last.op = "get" /\ LastRo /\ last.pre = "Normal")
         => last.res # "StateError" /\ last.calls = <<"mdb_get">>

\* a reset handle was renewed: the transaction is Normal on an active handle
C4_Witness ==
    /\ last.op = "renew" /\ last.pre = "Released" /\ last.res = "Ok"
    /\ txn[last.who].state = "Normal" /\ eng[last.who].h = "active"

\* C5: no operation changes the state of an Invalid transaction; a commit
\* leaves a read-write transaction Invalid and a read-only one Released,
\* where renew is not refused and, if the engine agrees, leaves it Normal.
C5_InvalidIsTerminal ==
    /\ last.pre = "Invalid" => last.post = "Invalid" /\ LastPostHeld
    /\ (last.op \in CommitOps /\ last.pre = "Normal" /\ ~LastRo) => last.post = "Invalid"
    /\ (last.op \in CommitOps /\ last.pre = "Normal" /\ LastRo) => last.post = "Released"
    /\ (last.op = "renew" /\ last.pre = "Released")
         => last.res # "StateError" /\ (last.res = "Ok" => last.post = "Normal")

\* a committed read-only transaction was renewed and a get on it accepted
C5_Witness ==
    /\ last.op = "get" /\ LastRo /\ last.res # "StateError"
    /\ eng[last.who].h = "committed"

\* C6: dropping a Normal transaction, top-level or nested, makes exactly one
\* engine abort, leaves it Invalid and reports nothing; dropping a
\* transaction in another state makes no engine call.
C6_Drop ==
    last.op = "drop"
        => /\ last.res = "Ok"
           /\ IF last.pre = "Normal"
              THEN last.calls = <<"mdb_txn_abort">> /\ last.post = "Invalid"
              ELSE last.calls = <<>> /\ last.post = last.pre

\* a nested transaction was dropped while Normal
C6_Witness ==
    /\ last.op = "drop" /\ LastChild /\ last.pre = "Normal"
    /\ last.calls = <<"mdb_txn_abort">>

\* C7: new_cursor and the iterators built on it, given a transaction that is
\* not Normal, fail with StateError before mdb_cursor_open is called.
C7_CursorRequiresNormal ==
    (last.op \in CursorOps /\ last.pre # "Normal")
        => /\ last.res = "StateError"
           /\ \A i \in DOMAIN last.calls : last.calls[i] # "mdb_cursor_open"

\* C9: whatever the interleaving of get_db and create_db calls for a name,
\* the successful calls all return one handle, the one the cache holds for the
\* name; while a name is cached no thread is past the lookup for it, so the
\* engine is not asked to open it and no transaction is begun; and a call
\* answered from the cache has made no engine call.
C9_SameHandleOneOpen ==
    /\ \A n \in DbNames :
         /\ Cardinality(returned[n]) <= 1
         /\ returned[n] # {} => n \in DOMAIN db_cache /\ returned[n] = {db_cache[n]}
    /\ \A th \in Threads :
         /\ pc[th] \in {"miss", "begun", "opened", "committed"}
              => frame[th].name \notin DOMAIN db_cache
         /\ ret[th].hit => ret[th].calls = <<>>
         /\ (ret[th].res = "Ok" /\ ~ret[th].hit)
              => ret[th].calls = <<"mdb_txn_begin", "mdb_dbi_open", "mdb_txn_commit">>

\* one thread opened a database through the engine, the other got the same
\* handle from the cache while the first is opening a second database
C9_Witness ==
    \E a, b \in Threads :
        /\ a # b
        /\ ret[a].res = "Ok" /\ ~ret[a].hit
        /\ ret[b].res = "Ok" /\ ret[b].hit /\ ret[b].dbi = ret[a].dbi
        /\ pc[a] = "opened" /\ frame[a].name # "" /\ frame[a].name \notin DOMAIN db_cache

\* C10: move_to_lte_key(t) succeeds exactly when some stored key is <= t in
\* the database's key order, and then the cursor is on the greatest such key
\* (target equal to a key, between two keys or beyond the last); otherwise
\* (target before the first key, empty database) it returns NotFound.
C10_MoveToLteKey ==
    cres.op = "move_to_lte_key"
        => \A t \in cres.target :
             LET le == {k \in StoredKeys : mdb_cmp(k, t) <= 0}
             IN  IF le = {} THEN cres.res = "NotFound"
                 ELSE /\ cres.res = "Ok"
                      /\ mc.st = "at"
                      /\ \A i \in mc.at :
                           /\ i[1] \in le
                           /\ \A k \in le : mdb_cmp(k, i[1]) <= 0
                           /\ cursor.key_val = {i[1]}
                      /\ cursor.valid_key

\* the target lay beyond the last of two stored keys; the cursor is on the last
C10_Witness ==
    /\ cres.op = "move_to_lte_key" /\ cres.res = "Ok"
    /\ Cardinality(StoredKeys) >= 2
    /\ \A t \in cres.target : \A k \in StoredKeys : mdb_cmp(k, t) < 0
    /\ mc.st = "at"

\* C8: a key whose last committed write is a set of value v, read by a
\* Normal transaction that began (or was renewed) after that commit and has
\* not written the key itself, gives exactly v (the database not having been
\* deleted, and the reading transaction having no nested transaction open).
C8_CommittedSetIsRead ==
    (last.op = "get" /\ last.pre = "Normal" /\ dbiOpen /\ ~HasActiveChild(last.who))
        => \A k \in last.key :
             (hist[last.who][k] = "fresh" /\ durable[k] \in Values)
                 => last.res = "Ok" /\ last.val = durable[k]
\* ---- SpecItems
\* a get that follows gives the item <<k, v>>
GetGives(k, v) ==
    LET g == get_plain(Now)
    IN  g.res = "Ok" /\ g.cur.key_val = {k} /\ g.cur.data_val = {v}

\* the stored keys that are <= t, and the duplicates of k that are <= v or
\* >= v, in the orders of the database
KeysLte(t) == {k \in StoredKeys : mdb_cmp(k, t) <= 0}
DupsLte(k, v) == {d \in Dups(k) : mdb_dcmp(d, v) <= 0}
DupsGte(k, v) == {d \in Dups(k) : mdb_dcmp(d, v) >= 0}

C12_LteKeyFirstItem ==
    (cres.op = "move_to_lte_key_first_item" /\ dupsort)
        => \A t \in cres.target :
             IF KeysLte(t) = {} THEN cres.res = "NotFound"
             ELSE /\ cres.res = "Ok"
                  /\ mc = At(LastKey(KeysLte(t)), FirstDup(LastKey(KeysLte(t))))
                  /\ GetGives(LastKey(KeysLte(t)), FirstDup(LastKey(KeysLte(t))))

\* the target lay between two keys, the lower one holding two values: the
\* step back reached its last value and the cursor is on its first
C12_Witness ==
    /\ cres.op = "move_to_lte_key_first_item" /\ cres.res = "Ok" /\ dupsort
    /\ \A t \in cres.target :
         /\ t \notin StoredKeys
         /\ \E k \in StoredKeys : mdb_cmp(k, t) > 0
         /\ Cardinality(Dups(LastKey(KeysLte(t)))) = 2
         /\ mc = At(LastKey(KeysLte(t)), FirstDup(LastKey(KeysLte(t))))
\* what move_to_gte_item(k, v) is to do: the cursor on the smallest duplicate
\* of k that is >= v, a following get giving k and that duplicate; NotFound
\* when k is absent or every duplicate of k is < v
GteItemDone(k, v) ==
    IF DupsGte(k, v) = {} THEN cres.res = "NotFound"
    ELSE /\ cres.res = "Ok"
         /\ mc = At(k, FirstVal(DupsGte(k, v)))
         /\ GetGives(k, FirstVal(DupsGte(k, v)))

C14_LteItem ==
    (cres.op = "move_to_lte_item" /\ dupsort)
        => \A p \in cres.target :
             IF DupsLte(p[1], p[2]) = {} THEN cres.res = "NotFound"
             ELSE /\ cres.res = "Ok"
                  /\ mc = At(p[1], LastVal(DupsLte(p[1], p[2])))
                  /\ GetGives(p[1], LastVal(DupsLte(p[1], p[2])))

\* ---- the iterators
\* a set of keys, and the values of key k, as sequences in the orders of the
\* database
RECURSIVE KeysInOrder(_)
KeysInOrder(S) ==
    IF S = {} THEN <<>>
    ELSE <<One({k \in S : \A j \in S : mdb_cmp(k, j) <= 0})>>
            \o KeysInOrder(S \ {k \in S : \A j \in S : mdb_cmp(k, j) <= 0})
RECURSIVE DupsInOrder(_)
DupsInOrder(S) ==
    IF S = {} THEN <<>>
    ELSE <<FirstVal(S)>> \o DupsInOrder(S \ {FirstVal(S)})

\* one element per key of S, each with the first value of its key
FirstItems(S) == [i \in 1..Cardinality(S) |->
                    <<KeysInOrder(S)[i], FirstDup(KeysInOrder(S)[i])>>]
\* every item of key k
ItemsOf(k) == [i \in 1..Cardinality(Dups(k)) |-> <<k, DupsInOrder(Dups(k))[i]>>]

IsPrefix(a, b) == Len(a) <= Len(b) /\ \A i \in 1..Len(a) : a[i] = b[i]

\* the iterator gives the elements of exp, one per call of next() and in
\* that order, and ends (None) after the last of them and not before
Yields(exp) ==
    /\ IsPrefix(yielded, exp)
    /\ nx.ret = "Some" => Len(yielded) = nx.n /\ nx.elem = {yielded[nx.n]}
    /\ nx.ret = "None" => yielded = exp

KeysFrom(s) == {k \in StoredKeys : mdb_cmp(k, s) >= 0}
KeysBefore(e) == {k \in StoredKeys : mdb_cmp(k, e) < 0}
KeysUpTo(e) == {k \in StoredKeys : mdb_cmp(k, e) <= 0}

\* C16: keyrange_from(s) yields exactly the stored keys >= s and
\* keyrange_to(e) exactly the stored keys < e (e excluded), in ascending
\* key order and one element per key; when no stored key satisfies the
\* bound the iterator yields nothing and ends.
C16_FromOrTo ==
    /\ iter.method = "keyrange_from"
         => Yields(FirstItems(KeysFrom(One(iter.start_key))))
    /\ iter.method = "keyrange_to"
         => Yields(FirstItems(KeysBefore(One(iter.end_key))))

\* keyrange_to(e) with e stored and not the first key, run to its end: e is
\* left out
C16_Witness ==
    /\ iter.method = "keyrange_to" /\ nx.ret = "None"
    /\ iter.end_key \subseteq StoredKeys
    /\ Len(yielded) >= 1
    /\ \A i \in 1..Len(yielded) : {yielded[i][1]} # iter.end_key

\* C17: keyrange(s, e) yields exactly the stored keys k with s <= k <= e
\* and keyrange_from_to(s, e) exactly those with s <= k < e, in ascending
\* key order and one element per key; when no stored key lies within the
\* bounds (both below the data, both above it, or s > e) the iterator
\* yields nothing and ends.
C17_KeyRange ==
    /\ iter.method = "keyrange"
         => Yields(FirstItems(KeysFrom(One(iter.start_key))
                                \cap KeysUpTo(One(iter.end_key))))
    /\ iter.method = "keyrange_from_to"
         => Yields(FirstItems(KeysFrom(One(iter.start_key))
                                \cap KeysBefore(One(iter.end_key))))

\* keyrange(s, e) with e stored and keys after it, run to its end: e is the
\* last element
C17_Witness ==
    /\ iter.method = "keyrange" /\ nx.ret = "None"
    /\ iter.end_key \subseteq StoredKeys
    /\ StoredKeys \ KeysUpTo(One(iter.end_key)) # {}
    /\ Len(yielded) >= 2
    /\ {yielded[Len(yielded)][1]} = iter.end_key

\* the size hint of the iterator where the cursor is now
size_hint == get_size_hint(iter, Now)

\* C18: item_iter(k) yields every value stored under key k exactly once, in
\* ascending order of the duplicates (the comparator installed with
\* set_dupsort if any), and nothing from other keys; it yields nothing and
\* ends when k is absent; the upper bound of its size hint is the number of
\* duplicates of the key the cursor is on.
C18_ItemIter ==
    iter.method = "item_iter"
        => /\ Yields(ItemsOf(One(iter.key)))
           /\ OnSomeKey(mc) => size_hint[2] = {Cardinality(Dups(Here(mc)[1]))}

\* the engine calls of a next() that move the cursor, and those that move it
\* one step on
MovesOf(calls) == {i \in 1..Len(calls) : calls[i] # "MDB_GET_CURRENT"}
StepsOn == {"MDB_NEXT_NODUP", "MDB_NEXT_DUP"}

\* position b of the engine's cursor is further on than position a
After(a, b) ==
    /\ a.st = "at"
    /\ \/ b.st = "end"
       \/ /\ b.st = "at"
          /\ \/ mdb_cmp(Here(a)[1], Here(b)[1]) < 0
             \/ /\ Here(a)[1] = Here(b)[1]
                /\ mdb_dcmp(Here(a)[2], Here(b)[2]) < 0

\* C19: every iterator over a finite database ends: a next() moves the
\* cursor at most once, forward, never backward or back to the start (and
\* strictly forward whenever it leaves an element for the call after it),
\* so that after more calls than there are items next() returns None; and
\* once next() has returned None every later next() returns None.
C19_ForwardOnly ==
    [][nx'.n = nx.n + 1
         => /\ Cardinality(MovesOf(nx'.calls)) <= 1
            /\ \A i \in MovesOf(nx'.calls) : nx'.calls[i] \in StepsOn
            /\ mc' = mc \/ After(mc, mc')
            /\ (nx'.ret = "Some" /\ iter'.has_data) => After(mc, mc')
            /\ nx'.n > Cardinality(items) => nx'.ret = "None"
            /\ nx.ret = "None" => nx'.ret = "None"]_vars

\* next() was called again after it had returned None at the end of a scan
\* of several elements
C19_Witness ==
    /\ iter.method # "none" /\ nx.ret = "None"
    /\ Len(yielded) >= 2
    /\ nx.n >= Len(yielded) + 2

StepKey == One(cres'.target)
PairKey == One(cres'.target)[1]
PairVal == One(cres'.target)[2]
\* the items of the keys other than k are the same after the step
OthersKept(k) == {i \in items' : i[1] # k} = {i \in items : i[1] # k}
\* what get(k) returns in a state: the first value of the key, or NotFound
GetIs(k, res, val) ==
    IF k \in StoredKeys THEN res = "Ok" /\ val = {FirstDup(k)}
    ELSE res = "NotFound" /\ val = {}

\* C21: in a database without duplicates, in one Normal transaction: get of
\* a key that is not stored returns NotFound and get of a stored key its one
\* value; set(k, v) succeeds and leaves k with the one value v, whatever it
\* held; del(k) of a stored key succeeds and leaves k not stored; and each of
\* the three leaves the items of every other key as they were.
C21_SingleValue ==
    [][~dupsort =>
        /\ cres'.op = "get_value" =>
             /\ GetIs(StepKey, cres'.res, cres'.val)
             /\ items' = items
        /\ cres'.op = "set" =>
             /\ cres'.res = "Ok"
             /\ {i \in items' : i[1] = PairKey} = {<<PairKey, PairVal>>}
             /\ OthersKept(PairKey)
        /\ cres'.op = "del" =>
             /\ cres'.res = (IF StepKey \in StoredKeys THEN "Ok" ELSE "NotFound")
             /\ StepKey \notin {i[1] : i \in items'}
             /\ OthersKept(StepKey)]_vars
\* a second set has replaced the value of a key while another key is stored
C21_Witness ==
    /\ ~dupsort
    /\ cres.op = "set" /\ cres.target = {<<1, 4>>} /\ cres.res = "Ok"
    /\ items = {<<1, 4>>, <<2, 2>>}

\* C22: in a database with duplicates: set(k, v) succeeds and adds the pair
\* (k, v) to what is stored, changing nothing when the pair is there; get(k)
\* returns the value of k that the order of duplicates puts first; del_item
\* (k, v) of a stored pair succeeds and removes that pair alone, so that get
\* then finds the first of the values left; del(k) of a stored key succeeds
\* and removes every value of k.
C22_Duplicates ==
    [][dupsort =>
        /\ cres'.op = "set" =>
             /\ cres'.res = "Ok"
             /\ items' = items \cup {<<PairKey, PairVal>>}
        /\ cres'.op = "get_value" =>
             /\ items' = items
             /\ IF Dups(StepKey) = {} THEN cres'.res = "NotFound"
                ELSE /\ cres'.res = "Ok"
                     /\ \E v \in Dups(StepKey) :
                          /\ cres'.val = {v}
                          /\ \A o \in Dups(StepKey) : mdb_dcmp(v, o) <= 0
        /\ cres'.op = "del_item_of" =>
             IF <<PairKey, PairVal>> \in items
             THEN cres'.res = "Ok" /\ items' = items \ {<<PairKey, PairVal>>}
             ELSE cres'.res = "NotFound" /\ items' = items
        /\ cres'.op = "del" =>
             IF StepKey \in StoredKeys
             THEN cres'.res = "Ok" /\ items' = {i \in items : i[1] # StepKey}
             ELSE cres'.res = "NotFound" /\ items' = items]_vars
\* del_item has removed one of the two values of a key
C22_Witness ==
    /\ dupsort
    /\ cres.op = "del_item_of" /\ cres.target = {<<1, 2>>} /\ cres.res = "Ok"
    /\ items = {<<1, 4>>, <<2, 2>>, <<2, 4>>}

\* C23: insert(k, v) fails with KeyExists when k is stored, with or without
\* duplicates and whatever values k holds, and then changes nothing; when k
\* is not stored (never set, or deleted: the stored items are all that the
\* engine goes by) it succeeds and stores the pair (k, v).
C23_Insert ==
    [][cres'.op = "insert" =>
        IF PairKey \in StoredKeys
        THEN cres'.res = "KeyExists" /\ items' = items
        ELSE cres'.res = "Ok" /\ items' = items \cup {<<PairKey, PairVal>>}]_vars
\* insert of a further value for a stored key of a database with duplicates
\* has been refused
C23_Witness ==
    /\ dupsort
    /\ cres.op = "insert" /\ cres.target = {<<1, 4>>} /\ cres.res = "KeyExists"
    /\ items = {<<1, 2>>}

\* the key comes at or after (strictly after) every stored key, and the value
\* at or after (strictly after) every value the key holds
KeyAtOrAfterAll(k) == \A j \in StoredKeys : mdb_cmp(k, j) >= 0
KeyAfterAll(k) == \A j \in StoredKeys : mdb_cmp(k, j) > 0
ValAtOrAfterAll(k, v) == \A d \in Dups(k) : mdb_dcmp(v, d) >= 0
ValAfterAll(k, v) == \A d \in Dups(k) : mdb_dcmp(v, d) > 0

DupsAfter(k) == {i[2] : i \in {j \in items' : j[1] = k}}

\* C25: del_item on a cursor that is on an item succeeds and removes that
\* item alone: the key has one value fewer and every other item stays; where
\* the key keeps values the cursor stays on the key, and item_count, which
\* returns the number of values of the key the cursor is on, gives one fewer.
\* del_all on a cursor that is on a key succeeds and removes every item of
\* that key and no other; move_to_key finds exactly the keys that are stored,
\* so the deleted key gives NotFound and every other key is found.
C25_CursorDelete ==
    [][/\ cres'.op = "del_item" /\ mc.st = "at" =>
            /\ cres'.res = "Ok"
            /\ items' = items \ mc.at
            /\ Cardinality(DupsAfter(Here(mc)[1])) = Cardinality(Dups(Here(mc)[1])) - 1
            /\ DupsAfter(Here(mc)[1]) # {} =>
                 /\ mc'.st \in {"at", "dupend"}
                 /\ Here(mc')[1] = Here(mc)[1]
       /\ cres'.op = "item_count" /\ dupsort /\ OnSomeKey(mc) =>
            /\ cres'.res = "Ok"
            /\ cres'.val = {Cardinality(Dups(Here(mc)[1]))}
       /\ cres'.op = "del_all" /\ OnSomeKey(mc) =>
            /\ cres'.res = "Ok"
            /\ items' = {i \in items : i[1] # Here(mc)[1]}
       /\ cres'.op = "move_to_key" =>
            /\ items' = items
            /\ cres'.res = (IF One(cres'.target) \in StoredKeys THEN "Ok" ELSE "NotFound")
            /\ cres'.res = "Ok" => mc'.st = "at" /\ Here(mc')[1] = One(cres'.target)]_vars
\* del_item has removed the first of the two values of a key and left the
\* cursor on the second
C25_Witness ==
    /\ dupsort /\ ~dreverse
    /\ cres.op = "del_item" /\ cres.res = "Ok"
    /\ mc = At(1, 4)
    /\ items = {<<1, 4>>, <<2, 2>>, <<2, 4>>}
\* del_all has removed a key with two values and left the other key
C25_WitnessAll ==
    /\ dupsort /\ ~reverse
    /\ cres.op = "del_all" /\ cres.res = "Ok"
    /\ mc = At(2, 2)
    /\ items = {<<2, 2>>, <<2, 4>>}

\* a step of add_item, of replace, or of the get after one of them does what
\* C26 says of it
C26_Step ==
       /\ cres'.op = "add_item" /\ dupsort /\ OnSomeKey(mc) =>
            /\ cres'.res = "Ok"
            /\ items' = items \cup {<<Here(mc)[1], One(cres'.target)>>}
            /\ mc' = At(Here(mc)[1], One(cres'.target))
       /\ cres'.op = "replace" =>
            /\ cres'.res = "Ok"
            /\ items' = (items \ mc.at) \cup {<<Here(mc)[1], One(cres'.target)>>}
            /\ mc' = At(Here(mc)[1], One(cres'.target))
       /\ cres'.op = "get" /\ cres.op \in {"add_item", "replace"} /\ cres.res = "Ok" =>
            /\ cres'.res = "Ok"
            /\ cres'.val = {<<Here(mc)[1], One(cres.target)>>}

\* C26 as stated: add_item(v) on a cursor that is on a key of a database
\* with duplicates succeeds, adds v to the values of that key and nothing
\* else, and leaves the cursor on the added item; replace(v) on a cursor
\* that is on an item succeeds and puts v in the place of that item's value
\* and changes nothing else; a get that follows either returns the key the
\* cursor is on with the value written.
C26_CursorWrite == [][C26_Step]_vars
\* the same for the steps taken with a key_val that, where it is taken as
\* valid, is the key the engine's cursor is on
C26_WithKeyInStep ==
    [][(cursor.valid_key /\ OnSomeKey(mc) => cursor.key_val = {Here(mc)[1]})
        => C26_Step]_vars

\* ---- del_db and the handle cache (Spec)
\* C27 as stated: a del_db that succeeds removes from the handle cache the
\* entry of the dropped handle and no other; a del_db that fails, with
\* StateError or with an error of the engine's drop, leaves the handle cache
\* as it was.
C27_DelDbCache ==
    [][last'.op = "del_db" /\ last' # last =>
        IF last'.res = "Ok"
        THEN /\ \A n \in DOMAIN db_cache' : db_cache'[n] # TestDbi
             /\ \A n \in DOMAIN db_cache :
                  db_cache[n] # TestDbi => n \in DOMAIN db_cache' /\ db_cache'[n] = db_cache[n]
             /\ DOMAIN db_cache' \subseteq DOMAIN db_cache
        ELSE db_cache' = db_cache]_vars
\* the part that holds: a successful del_db removes the entry, and one that
\* fails with StateError leaves the cache as it was
C27_OkAndStateError ==
    [][last'.op = "del_db" /\ last' # last =>
        /\ last'.res = "Ok" => TestDbName \notin DOMAIN db_cache'
        /\ last'.res = "StateError" => db_cache' = db_cache]_vars

\* ---- the Environment (SpecEnv)
\* C28: in an Environment opened read-only, new_transaction fails with
\* StateError and calls nothing of the engine, no transaction that is not
\* read-only is ever begun or held, get_reader succeeds, and get_db of a
\* database that exists succeeds, its opening transaction being read-only.
C28_ReadOnlyEnv ==
    env.is_readonly =>
        /\ env.last.op = "new_transaction" =>
             env.last.res = "StateError" /\ env.last.calls = <<>>
        /\ \A b \in env.begun : b.rdonly
        /\ \A t \in env.txns : t.rdonly
        /\ env.last.op = "get_reader" => env.last.res = "Ok"
        /\ env.last.op = "get_db" => env.last.res = "Ok" /\ env.cached
\* a read-only Environment has opened the database and holds a reader, and
\* new_transaction has just been refused
C28_Witness ==
    /\ env.is_readonly
    /\ env.cached
    /\ LiveTxn("ro")
    /\ env.begun = {[parent |-> "none", rdonly |-> TRUE]}
    /\ env.last = EnvOp("new_transaction", "StateError", <<>>)

\* C29: a nested transaction exists only under a read-write parent: no
\* transaction alive has a read-only parent, and the engine has begun no
\* transaction under a read-only parent; every child is that of the
\* read-write transaction.
C29_ChildOfReadWrite ==
    /\ \A t \in env.txns : t.parent # "none" =>
         /\ LiveTxn(t.parent)
         /\ ~TxnOf(t.parent).rdonly
    /\ \A b \in env.begun : b.parent # "ro"
\* ReadonlyTransaction::new_ro_child has been called on a live reader and
\* has failed, and a child of the read-write transaction is alive
C29_Witness ==
    /\ LiveTxn("ro")
    /\ LiveTxn("rw_child")
    /\ env.last.op = "ro_new_ro_child"
    /\ env.last.res # "Ok"
    /\ [parent |-> "rw", rdonly |-> FALSE] \in env.begun

\* C30 as stated: the engine environment is closed exactly once, when the
\* last Environment value sharing the handle is dropped, and not while one
\* is alive.
C30_ClosedOnce ==
    /\ env.holders > 0 => env.closes = 0
    /\ env.holders = 0 => env.closes = 1
\* the part that holds: the environment is not closed while an Environment
\* value is alive, and never more than once
C30_NeverEarly ==
    /\ env.holders > 0 => env.closes = 0
    /\ env.closes <= 1

\* ---- error propagation (SpecIter)
\* an engine call made inside this call of next() returned a code other than
\* MDB_SUCCESS: the fetch, or the step on to the following element
FailedInNext ==
    /\ iter.method # "none"
    /\ iter.has_data
    /\ nx'.n = nx.n + 1
    /\ \E g \in {get_plain(Now)} :
         \/ g.res # "Ok"
         \/ policy_move_to_next(iter, g).s.res # "Ok"
\* an engine call made inside the creation of the iterator failed
FailedInWrap ==
    /\ iter.method = "none"
    /\ iter'.method # "none"
    /\ init_cursor(iter', NewCursor).s.res # "Ok"

\* an engine call made inside this call of next() returned a code other than
\* MDB_SUCCESS and MDB_NOTFOUND
ErrorInNext ==
    /\ iter.method # "none"
    /\ iter.has_data
    /\ nx'.n = nx.n + 1
    /\ \E g \in {get_plain(Now)} :
         \/ g.res \notin {"Ok", "NotFound"}
         \/ g.res = "Ok" /\ policy_move_to_next(iter, g).s.res \notin {"Ok", "NotFound"}

\* C31 as stated, for the iterators, MDB_NOTFOUND at the end of the
\* iteration not counted: when an engine call made inside next() returns an
\* error, the caller is handed an error, not an element and not an end of
\* the iteration.
C31_NoErrorSwallowed ==
    [][ErrorInNext => nx'.ret \notin {"Some", "None"}]_vars
\* the same with every code other than success counted, as the claim has it
C31_NoStatusSwallowed ==
    [][/\ FailedInNext => nx'.ret \notin {"Some", "None"}
       /\ FailedInWrap => FALSE]_vars
\* while the transaction has no nested transaction every code that an engine
\* call returns inside an iterator is MDB_SUCCESS or MDB_NOTFOUND
C31_OnlyNotFoundHere ==
    [][/\ FailedInNext =>
            \E g \in {get_plain(Now)} :
                IF g.res # "Ok" THEN g.res = "NotFound"
                ELSE policy_move_to_next(iter, g).s.res = "NotFound"
       /\ FailedInWrap => init_cursor(iter', NewCursor).s.res = "NotFound"]_vars


\* ---- error mapping (SpecErr)
\* the seven codes with a variant of their own
OwnVariant ==
    [c \in {MDB_NOTFOUND, MDB_KEYEXIST, MDB_TXN_FULL, MDB_CURSOR_FULL,
            MDB_PAGE_FULL, MDB_CORRUPTED, MDB_PANIC} |->
        CASE c = MDB_NOTFOUND -> "NotFound"
          [] c = MDB_KEYEXIST -> "KeyExists"
          [] c = MDB_TXN_FULL -> "TxnFull"
          [] c = MDB_CURSOR_FULL -> "CursorFull"
          [] c = MDB_PAGE_FULL -> "PageFull"
          [] c = MDB_CORRUPTED -> "Corrupted"
          [] c = MDB_PANIC -> "Panic"]
Mapped == cres.op \in {"new_with_code", "lift_mdb", "try_mdb"}
MappedCode == CHOOSE c \in cres.target : TRUE
MappedErr == CHOOSE e \in cres.res.err : TRUE

\* C32: the mapping of engine codes is total and keeps the code: each of the
\* seven codes not-found, key-exists, txn-full, cursor-full, page-full,
\* corrupted and panic gives the variant of its name, every other code c
\* that is not success (map-full among them) gives Other carrying c itself,
\* and success gives no error in lift_mdb! and try_mdb!.
C32_ErrorMapping ==
    Mapped =>
        /\ cres.target \subseteq ErrCodes
        /\ cres.op # "new_with_code" /\ MappedCode = MDB_SUCCESS =>
             cres.res.ok /\ cres.res.err = {}
        /\ MappedCode # MDB_SUCCESS \/ cres.op = "new_with_code" =>
             /\ ~cres.res.ok
             /\ Cardinality(cres.res.err) = 1
             /\ MappedCode \in DOMAIN OwnVariant =>
                  MappedErr = MdbError(OwnVariant[MappedCode], {})
             /\ MappedCode \notin DOMAIN OwnVariant =>
                  MappedErr = MdbError("Other", {MappedCode})
C32_Witness ==
    /\ cres.op = "lift_mdb"
    /\ cres.target = {MDB_MAP_FULL}
    /\ cres.res = [ok |-> FALSE, err |-> {MdbError("Other", {MDB_MAP_FULL})}]


\* ---- opening databases (SpecCache)
\* the thread has begun the opening transaction and not finished it
InOpen(th) == pc[th] \in {"begun", "opened"}
\* the thread has looked the name up, found nothing, and not yet returned
PastCheck(th) == pc[th] \in {"miss", "begun", "opened", "committed"}

C33_OneOpener ==
    /\ Cardinality({th \in Threads : InOpen(th)}) <= 1
    /\ Cardinality(lock) <= 1
    /\ \A th \in Threads : pc[th] # "idle" => lock = {th}
C33_Atomic ==
    /\ \A th \in Threads :
         pc[th] = "begun" /\ pc'[th] # "begun" =>
           \A o \in Threads \ {th} : ~InOpen(o)
    /\ \A th \in Threads :
         PastCheck(th) =>
           /\ frame[th].name \notin DOMAIN db_cache
           /\ db_cache' # db_cache =>
                /\ pc[th] = "committed"
                /\ db_cache' = Insert(db_cache, frame[th].name, CHOOSE d \in frame[th].db : TRUE)
    /\ db_cache' # db_cache => \E th \in Threads : PastCheck(th)
\* C33: opening databases is serialized: at most one thread is between
\* beginning the opening transaction and finishing it, every thread inside
\* _open_db holds the cache lock, mdb_dbi_open is called only while no other
\* thread's opening transaction is active, and the check of the cache and
\* the insert are atomic: from the failed lookup to the insert the name stays
\* absent from the cache and nobody else changes the cache.
C33_OpenSerialized == [][C33_OneOpener' /\ C33_Atomic]_vars
C33_Witness ==
    \E th, o \in Threads :
        /\ th # o
        /\ pc[th] = "opened"
        /\ ret[o].res = "Ok" /\ ~ret[o].hit


\* the engine calls of a call of _open_db that failed leave no transaction
\* active: none was begun, or the last call aborted it or was the commit
\* that failed (which frees the transaction)
NotLeftActive(calls) ==
    \/ calls = <<>>
    \/ calls = <<"mdb_txn_begin">>
    \/ /\ Len(calls) >= 2
       /\ calls[Len(calls)] \in {"mdb_txn_abort", "mdb_txn_commit"}
Failed34(th) == pc'[th] = "idle" /\ ret'[th] # ret[th] /\ ret'[th].res # "Ok"

\* C34: the cache is a map (one entry per name); an entry name -> h is added
\* only by the thread that holds the lock, after the engine opened the name
\* as h in that thread's transaction and the commit succeeded; a call in
\* which the begin, the open or the commit fails, or that finds the lock
\* poisoned (CacheError), leaves the cache as it was and leaves no opening
\* transaction active.
C34_CacheEntries ==
    [][/\ db_cache' # db_cache =>
            \E th \in Threads :
                /\ lock = {th}
                /\ pc[th] = "committed"
                /\ frame[th].calls = <<"mdb_txn_begin", "mdb_dbi_open", "mdb_txn_commit">>
                /\ frame[th].name \in DOMAIN slots
                /\ frame[th].db = {slots[frame[th].name]}
                /\ db_cache' = Insert(db_cache, frame[th].name, slots[frame[th].name])
                /\ ret'[th].res = "Ok"
       /\ \A th \in Threads :
            Failed34(th) =>
                /\ db_cache' = db_cache
                /\ NotLeftActive(ret'[th].calls)
                /\ ret'[th].res = "CacheError" <=> env.poisoned
       /\ \A n \in DOMAIN db_cache' : n \in DOMAIN slots' /\ db_cache'[n] = slots'[n]]_vars
C34_Witness ==
    \E th, o \in Threads :
        /\ ret[th].res = "NotFound"
        /\ ret[th].calls = <<"mdb_txn_begin", "mdb_dbi_open", "mdb_txn_abort">>
        /\ ret[o].res = "CacheError"
        /\ db_cache # <<>>


\* ---- the engine handle of a transaction (Spec)
Finalizers == {"mdb_txn_commit", "mdb_txn_abort"}
TxnCalls == Finalizers \cup {"mdb_txn_reset", "mdb_txn_renew"}
\* the calls this step made on the handle of the transaction it is about
HandleCalls == {last'.calls[i] : i \in 1..Len(last'.calls)} \cap TxnCalls

\* C35: whatever commit, abort, reset, renew and drop are applied to a
\* transaction, its engine handle is finalized (committed or aborted) at
\* most once, no engine call is given the handle after the engine freed it,
\* and renew is called only on a handle that reset retained.
C35_HandleUsedWhileOwned ==
    [][HandleCalls # {} =>
         /\ ~Dangling(last'.who)
         /\ "mdb_txn_renew" \in HandleCalls => eng[last'.who].h = "reset"]_vars
\* the same for the calls that finalize: no handle is committed or aborted
\* after it was freed
C35_FinalizedOnce ==
    [][HandleCalls \cap Finalizers # {} => ~Dangling(last'.who)]_vars


\* C36: when the wrapper of a transaction goes away (dropped, or consumed by
\* Transaction::commit or abort), the engine handle it was created with has
\* been finalized: freed by an earlier commit or abort, or committed or
\* aborted by this very step; a handle that reset retained is among them.
C36_FinalizedWhenDropped ==
    [][\A t \in TxnIds :
         (txn[t].life = "alive" /\ txn'[t].life # "alive") =>
            \/ Dangling(t)
            \/ HandleCalls \cap Finalizers # {}]_vars
\* the same for the wrappers that are not Released when they go away
C36_UnlessReleased ==
    [][\A t \in TxnIds :
         (txn[t].life = "alive" /\ txn'[t].life # "alive" /\ txn[t].state # "Released") =>
            \/ Dangling(t)
            \/ HandleCalls \cap Finalizers # {}]_vars


\* ---- the validity flags (SpecItems)
NavOps == {"move_to_first", "move_to_last", "move_to_key", "move_to_gte_key",
           "move_to_lte_key", "move_to_lte_key_first_item",
           "move_to_lte_key_and_item", "move_to_gte_item", "move_to_lte_item"}
\* the operations that issue MDB_SET (none of the public ones does) and those
\* that issue MDB_GET_BOTH_RANGE
IssuesSet == {}
IssuesGetBothRange == {"move_to_gte_item", "move_to_lte_item", "move_to_lte_key_and_item"}
\* the operations that clear valid_key themselves after a successful
\* MDB_GET_BOTH_RANGE, which leaves the caller's key in key_val
ClearsKey == {"move_to_gte_item", "move_to_lte_key_and_item"}
Navigated == cres'.op \in NavOps
NavFailed == Navigated /\ cres'.res # "Ok"
NavOk == Navigated /\ cres'.res = "Ok"

Rereads == {"move_to_lte_item", "move_to_lte_key_and_item"}
C38_ValidIsEngineOwned ==
    /\ cursor.valid_key => cursor.key_mem = "engine"
    /\ cursor.valid_value => cursor.data_mem = "engine"
\* the same for the key alone
C38_ValidKeyIsEngineOwned == cursor.valid_key => cursor.key_mem = "engine"


\* ---- what get returns (SpecData, SpecItems)
\* the key and value a get of this step hands to its caller
GetReturns == cursor'.key_val \X cursor'.data_val
GotItem == cres'.op = "get" /\ cres'.res = "Ok"

\* C39: after any sequence of navigation and write operations a successful
\* get (get_key, get_value) returns the key and the value of one item, the
\* item the engine holds at the cursor's position: not the key of one item
\* with the value of another, and not bytes of an item deleted through the
\* cursor.
C39_GetIsCurrentItem ==
    [][GotItem => mc'.st = "at" /\ GetReturns = mc'.at]_vars
\* the same for the gets made before anything was deleted or written
\* through the cursor: the cached bytes are those of the engine's item
C39_UnlessWritten ==
    [][GotItem /\ cursor.key_mem # "caller" /\ cursor.data_mem # "caller"
         /\ (cursor.valid_key \/ cursor.valid_value => mc.st = "at" /\ cursor.key_val \X cursor.data_val = mc.at)
         => mc'.st = "at" /\ GetReturns = mc'.at]_vars


\* ---- threads that wait for each other (SpecOpen)
\* the threads that hold the engine's writer mutex
WriteHolders == {u \in Threads : HoldsWrite(u) \/ pc[u] \in {"begun", "opened"}}
\* the threads that hold what th is waiting for: the cache lock while th is
\* at lock(), the writer mutex while th is at mdb_txn_begin in _open_db
WaitsFor(th) ==
    IF pc[th] = "calling" THEN lock
    ELSE IF pc[th] = "miss" THEN WriteHolders
    ELSE {}
\* a set of threads each of which waits for a thread of the set
Deadlock == \E S \in SUBSET Threads \ {{}} :
                \A th \in S : WaitsFor(th) # {} /\ WaitsFor(th) \subseteq S

\* C40: with threads that share a read-write Environment and may hold a
\* read-write transaction while they call get_db or create_db, no reachable
\* state is a deadlock: no thread waits for the cache lock while its holder
\* waits for the writer mutex that thread holds, and no thread that opens an
\* uncached database while holding its own read-write transaction waits
\* forever.
C40_NoDeadlock == ~Deadlock
\* every deadlock has a thread in it that called get_db or create_db while
\* holding a read-write transaction of its own
C40_OnlyWhenHolding ==
    Deadlock => \E th \in Threads : HoldsWrite(th) /\ pc[th] \in {"calling", "miss"}
\* the two threads wait for each other
C40_CrossWait ==
    ~ \E a, b \in Threads :
        /\ a # b
        /\ pc[a] = "calling" /\ lock = {b}
        /\ pc[b] = "miss" /\ HoldsWrite(a)

====
